---- MODULE Spec2Model ----
(***************************************************************************)
(* A model of the zrd editor core (zrd-core/src/engine.rs, state.rs) and   *)
(* of the text buffer of its GPUI front end (zlyph-gpui/src/text_buffer.rs).*)
(*                                                                         *)
(* A row is a Rust String: a sequence of UTF-8 bytes, written here as a    *)
(* sequence of byte values.  Positions are 0-based (row, byte column) as   *)
(* in the source; TLA+ sequences are 1-based, so row r is lines[r + 1].    *)
(* Option<T> is a sequence of length 0 (None) or 1 (Some).                 *)
(* An operation that panics in Rust (slice or index out of range, an       *)
(* offset that is not a character boundary) sets the flag `panicked`; the  *)
(* process has aborted and takes no further action.                        *)
(***************************************************************************)
EXTENDS Integers, Sequences, FiniteSets, TLC

VARIABLES
    state,           \* EditorEngine.state: lines, cursor, selection_anchor, font_size
    undo_stack,      \* EditorEngine.undo_stack: Vec<EditorState>
    redo_stack,      \* EditorEngine.redo_stack: Vec<EditorState>
    last_edit_time,  \* EditorEngine.last_edit_time, kept as the milliseconds elapsed since it
    panicked,        \* TRUE once a handler has panicked
    steps,           \* number of operations performed since construction
    run,             \* history variable: the run of character-level edits in progress, if any
    buffer,          \* the TextBuffer of the GPUI front end: lines, line_layouts
    buf_steps,       \* number of operations performed on the TextBuffer
    file,            \* the document file of the front end: content and modification time
    last_modified,   \* TuiEditor.last_modified / TextEditor.last_modified
    clock,           \* the time the file system stamps a write with
    pc,              \* where the front end's loop stands
    seen,            \* the modification time check_and_reload has read
    since            \* history variable: what has happened since the last event

engine_vars == <<state, undo_stack, redo_stack, last_edit_time, panicked, steps, run>>
buffer_vars == <<buffer, buf_steps>>
adapter_vars == <<file, last_modified, clock, pc, seen, since>>
vars == <<engine_vars, buffer_vars, adapter_vars>>

----------------------------------------------------------------------------
(* Bounds of the model *)

MaxSteps == 4

\* operations on the text buffer, and the bytes a mutation may grow a row to
MaxBufSteps == 3
MaxRowBytes == 6

\* edits and history actions in a behaviour of the font size
MaxFontEdits == 2

----------------------------------------------------------------------------
(* Option *)

None == <<>>
Some(x) == <<x>>

(* Bytes, characters and strings *)

NL == <<10>>
SP == <<32>>
CharA == <<97>>
CharDash == <<45>>
CharEAcute == <<195, 169>>
FourSpaces == <<32, 32, 32, 32>>

Min(a, b) == IF a < b THEN a ELSE b
Max(a, b) == IF a > b THEN a ELSE b
SatSub(a, b) == IF a > b THEN a - b ELSE 0

Take(s, n) == SubSeq(s, 1, n)
Drop(s, n) == SubSeq(s, n + 1, Len(s))

IsContinuationByte(b) == b \in 128..191

\* str::is_char_boundary: 0 and len are boundaries, an offset past len is not
is_char_boundary(s, i) ==
    \/ i = 0
    \/ i = Len(s)
    \/ i < Len(s) /\ ~IsContinuationByte(s[i + 1])

\* char::len_utf8, read off the leading byte
len_utf8(b) ==
    IF b < 128 THEN 1 ELSE IF b < 224 THEN 2 ELSE IF b < 240 THEN 3 ELSE 4

\* str::chars: the characters of a string, each as its sequence of bytes
RECURSIVE chars(_)
chars(s) ==
    IF s = <<>> THEN <<>>
    ELSE LET w == Min(len_utf8(s[1]), Len(s))
         IN  <<Take(s, w)>> \o chars(Drop(s, w))

\* line.chars().nth(k)
chars_nth(s, k) ==
    LET cs == chars(s) IN IF k >= 0 /\ k < Len(cs) THEN Some(cs[k + 1]) ELSE None

\* char::is_whitespace (the ASCII white space, which is all the model's inputs hold)
is_whitespace(c) == Len(c) = 1 /\ (c[1] = 32 \/ c[1] \in 9..13)

\* char::is_alphanumeric: ASCII letters and digits, and the accented letter of the model
is_alphanumeric(c) ==
    \/ Len(c) = 1 /\ (c[1] \in 48..57 \/ c[1] \in 65..90 \/ c[1] \in 97..122)
    \/ c = CharEAcute

\* the `|c| !c.is_alphanumeric() && c != '_'` test of the word scans
is_not_word_char(c) == ~is_alphanumeric(c) /\ c # <<95>>

\* byte offset at which the last character of s starts (s is not empty)
last_char_start(s) == Len(s) - Len(chars(s)[Len(chars(s))])

(* Positions and states *)

Pos(r, c) == [row |-> r, column |-> c]

\* EditorState::new
NewState ==
    [lines |-> << <<>> >>, cursor |-> Pos(0, 0), selection_anchor |-> None, font_size |-> 14]

\* the engine as one value, as the methods of EditorEngine see it
Eng ==
    [state |-> state, undo_stack |-> undo_stack, redo_stack |-> redo_stack,
     last_edit_time |-> last_edit_time, panicked |-> panicked]

Panic(e) == [e EXCEPT !.panicked = TRUE]

line_count(e) == Len(e.state.lines)
RowExists(e, r) == r >= 0 /\ r < Len(e.state.lines)
Line(e, r) == e.state.lines[r + 1]

\* Vec::insert(idx, x) and Vec::remove(idx), 0-based
VecInsert(v, idx, x) == Take(v, idx) \o <<x>> \o Drop(v, idx)
VecRemove(v, idx) == Take(v, idx) \o Drop(v, idx + 1)

----------------------------------------------------------------------------
(* The undo manager *)

UNDO_CHUNK_DURATION == 500

\* the reading of a timer that only matters up to "more than UNDO_CHUNK_DURATION"
Saturated == UNDO_CHUNK_DURATION + 1

\* a variant with no debounce: every edit opens a chunk of its own
should_push_always(e) == e.last_edit_time = None \/ e.last_edit_time # None

\* a variant whose chunk never expires: only an edit in the clean state opens one
should_push_when_clean(e) == e.last_edit_time = None

\* Instant::now().duration_since(last_time) > UNDO_CHUNK_DURATION, or true when None
should_push_undo_state(e) ==
    IF e.last_edit_time # None
    THEN e.last_edit_time[1] > UNDO_CHUNK_DURATION
    ELSE TRUE

\* a variant of push_undo_state that leaves the redo stack as it is
push_undo_state_keeping_redo(e) ==
    IF ~should_push_undo_state(e) THEN e
    ELSE [e EXCEPT !.undo_stack = Append(@, e.state)]

push_undo_state(e) ==
    IF ~should_push_undo_state(e) THEN e
    ELSE [e EXCEPT !.undo_stack = Append(@, e.state), !.redo_stack = <<>>]

\* last_edit_time = Some(Instant::now()): nothing has elapsed since it yet
mark_edit_time(e) == [e EXCEPT !.last_edit_time = Some(0)]

\* a variant of the boundary edits that leaves the chunk timer running
reset_edit_time_skipped(e) == e

\* the `self.last_edit_time = None` of the chunk-boundary edits
reset_edit_time(e) == [e EXCEPT !.last_edit_time = None]

----------------------------------------------------------------------------
(* Selection *)

selection_range(e) ==
    IF e.state.selection_anchor = None THEN None
    ELSE LET anchor == e.state.selection_anchor[1]
             cursor == e.state.cursor
         IN  IF \/ anchor.row < cursor.row
                \/ (anchor.row = cursor.row /\ anchor.column < cursor.column)
             THEN Some([start |-> anchor, end |-> cursor])
             ELSE Some([start |-> cursor, end |-> anchor])

\* a variant of clear_selection that also ends the undo chunk
clear_selection_ending_chunk(e) ==
    [e EXCEPT !.state.selection_anchor = None, !.last_edit_time = None]

clear_selection(e) == [e EXCEPT !.state.selection_anchor = None]

\* String::replace_range(a..b, ""): both ends character boundaries within the string, a <= b
replace_range_ok(s, a, b) == is_char_boundary(s, a) /\ is_char_boundary(s, b) /\ a <= b
replace_range(s, a, b) == Take(s, a) \o Drop(s, b)

delete_range(e, start, end) ==
    IF start.row = end.row
    THEN IF ~RowExists(e, start.row) THEN Panic(e)
         ELSE IF ~replace_range_ok(Line(e, start.row), start.column, end.column) THEN Panic(e)
         ELSE [e EXCEPT !.state.lines[start.row + 1] = replace_range(@, start.column, end.column)]
    ELSE IF ~RowExists(e, start.row) \/ ~is_char_boundary(Line(e, start.row), start.column)
         THEN Panic(e)
         ELSE IF ~RowExists(e, end.row) \/ ~is_char_boundary(Line(e, end.row), end.column)
         THEN Panic(e)
         ELSE LET first_part == Take(Line(e, start.row), start.column)
                  last_part == Drop(Line(e, end.row), end.column)
              IN  [e EXCEPT !.state.lines =
                      Take(@, start.row) \o <<first_part \o last_part>> \o Drop(@, end.row + 1)]

delete_selection(e) ==
    LET r == selection_range(e) IN
    IF r = None THEN e
    ELSE LET e1 == delete_range(e, r[1].start, r[1].end) IN
         IF e1.panicked THEN e1
         ELSE [e1 EXCEPT !.state.cursor = r[1].start, !.state.selection_anchor = None]

----------------------------------------------------------------------------
(* Text edits *)

\* the body shared by type_character and by each turn of type_string's loop
insert_char(e, c) ==
    LET row == e.state.cursor.row
        col == e.state.cursor.column
    IN  IF ~RowExists(e, row) THEN Panic(e)
        ELSE IF ~is_char_boundary(Line(e, row), col) THEN Panic(e)
        ELSE IF c = NL
        THEN [e EXCEPT !.state.lines =
                          VecInsert([@ EXCEPT ![row + 1] = Take(Line(e, row), col)],
                                    row + 1, Drop(Line(e, row), col)),
                       !.state.cursor = Pos(row + 1, 0)]
        ELSE [e EXCEPT !.state.lines[row + 1] = Take(@, col) \o c \o Drop(@, col),
                       !.state.cursor.column = col + Len(c)]

type_character(e, c) ==
    LET e1 == delete_selection(mark_edit_time(push_undo_state(e))) IN
    IF e1.panicked THEN e1 ELSE insert_char(e1, c)

RECURSIVE insert_chars(_, _)
insert_chars(e, cs) ==
    IF cs = <<>> \/ e.panicked THEN e
    ELSE insert_chars(insert_char(e, Head(cs)), Tail(cs))

type_string(e, s) ==
    LET e1 == delete_selection(mark_edit_time(push_undo_state(e))) IN
    IF e1.panicked THEN e1 ELSE insert_chars(e1, chars(s))

\* a variant of backspace that stops at the start of a row instead of merging rows
backspace_within_row(e) ==
    LET e1 == mark_edit_time(push_undo_state(e))
        r == selection_range(e1)
        row == e1.state.cursor.row
        col == e1.state.cursor.column
    IN  IF r # None
        THEN LET e2 == delete_range(e1, r[1].start, r[1].end) IN
             IF e2.panicked THEN e2
             ELSE [e2 EXCEPT !.state.cursor = r[1].start, !.state.selection_anchor = None]
        ELSE IF col > 0
        THEN IF ~RowExists(e1, row) \/ ~is_char_boundary(Line(e1, row), col) THEN Panic(e1)
             ELSE LET at == last_char_start(Take(Line(e1, row), col)) IN
                  [e1 EXCEPT !.state.lines[row + 1] = Take(@, at) \o Drop(@, col),
                             !.state.cursor.column = at]
        ELSE e1

backspace(e) ==
    LET e1 == mark_edit_time(push_undo_state(e))
        r == selection_range(e1)
        row == e1.state.cursor.row
        col == e1.state.cursor.column
    IN  IF r # None
        THEN LET e2 == delete_range(e1, r[1].start, r[1].end) IN
             IF e2.panicked THEN e2
             ELSE [e2 EXCEPT !.state.cursor = r[1].start, !.state.selection_anchor = None]
        ELSE IF col > 0
        THEN IF ~RowExists(e1, row) \/ ~is_char_boundary(Line(e1, row), col) THEN Panic(e1)
             ELSE LET at == last_char_start(Take(Line(e1, row), col)) IN
                  [e1 EXCEPT !.state.lines[row + 1] = Take(@, at) \o Drop(@, col),
                             !.state.cursor.column = at]
        ELSE IF row > 0
        THEN IF ~RowExists(e1, row) THEN Panic(e1)
             ELSE LET current_line == Line(e1, row)
                      prev == Line(e1, row - 1)
                  IN  [e1 EXCEPT !.state.lines =
                                    [VecRemove(@, row) EXCEPT ![row] = prev \o current_line],
                                 !.state.cursor = Pos(row - 1, Len(prev))]
        ELSE e1

delete(e) ==
    LET e1 == mark_edit_time(push_undo_state(e))
        r == selection_range(e1)
        row == e1.state.cursor.row
        col == e1.state.cursor.column
    IN  IF r # None
        THEN LET e2 == delete_range(e1, r[1].start, r[1].end) IN
             IF e2.panicked THEN e2
             ELSE [e2 EXCEPT !.state.cursor = r[1].start, !.state.selection_anchor = None]
        ELSE IF ~RowExists(e1, row) THEN Panic(e1)
        ELSE IF col < Len(Line(e1, row))
        THEN IF ~is_char_boundary(Line(e1, row), col) THEN Panic(e1)
             ELSE LET w == len_utf8(Line(e1, row)[col + 1]) IN
                  [e1 EXCEPT !.state.lines[row + 1] = Take(@, col) \o Drop(@, col + w)]
        ELSE IF row + 1 < line_count(e1)
        THEN [e1 EXCEPT !.state.lines =
                           [VecRemove(@, row + 1) EXCEPT ![row + 1] = Line(e1, row) \o Line(e1, row + 1)]]
        ELSE e1

----------------------------------------------------------------------------
(* Newline and list continuation *)

IsPrefix(p, s) == Len(p) <= Len(s) /\ Take(s, Len(p)) = p

\* str::trim_start: the string without its leading white space
RECURSIVE trim_start(_)
trim_start(s) ==
    IF s # <<>> /\ is_whitespace(Head(chars(s))) THEN trim_start(Tail(s)) ELSE s

\* str::find(". "): the first byte offset at which ". " starts, if any
RECURSIVE find_dot_space_from(_, _)
find_dot_space_from(s, i) ==
    IF i + 2 > Len(s) THEN None
    ELSE IF s[i + 1] = 46 /\ s[i + 2] = 32 THEN Some(i)
    ELSE find_dot_space_from(s, i + 1)

IsDigit(b) == b \in 48..57

RECURSIVE digits_value(_)
digits_value(s) ==
    IF s = <<>> THEN 0 ELSE 10 * digits_value(Take(s, Len(s) - 1)) + (s[Len(s)] - 48)

\* str::parse::<usize>: an optional '+' and one or more ASCII digits
parse_usize(s) ==
    LET body == IF s # <<>> /\ s[1] = 43 THEN Tail(s) ELSE s IN
    IF body # <<>> /\ (\A i \in 1..Len(body) : IsDigit(body[i]))
    THEN Some(digits_value(body))
    ELSE None

\* format!("{}", n)
RECURSIVE format_usize(_)
format_usize(n) ==
    IF n < 10 THEN <<48 + n>> ELSE format_usize(n \div 10) \o <<48 + (n % 10)>>

UncheckedBox == <<45, 32, 91, 32, 93, 32>>
LowerCheckedBox == <<45, 32, 91, 120, 93, 32>>
UpperCheckedBox == <<45, 32, 91, 88, 93, 32>>
DashMarker == <<45, 32>>
StarMarker == <<42, 32>>
PlusMarker == <<43, 32>>

\* a variant of the match that never reports an empty item
ListHitWithContent(pattern, pattern_len, is_empty) ==
    Some([pattern |-> pattern, pattern_len |-> pattern_len, is_empty |-> FALSE])

ListHit(pattern, pattern_len, is_empty) ==
    Some([pattern |-> pattern, pattern_len |-> pattern_len, is_empty |-> is_empty])

detect_list_pattern(line) ==
    LET trimmed == trim_start(line)
        indent_len == Len(line) - Len(trimmed)
        rest(p) == Drop(trimmed, Len(p))
        number_end == find_dot_space_from(trimmed, 0)
    IN  IF IsPrefix(UncheckedBox, trimmed)
        THEN ListHit(UncheckedBox, indent_len + 6, rest(UncheckedBox) = <<>>)
        ELSE IF IsPrefix(LowerCheckedBox, trimmed)
        THEN ListHit(UncheckedBox, indent_len + 6, rest(LowerCheckedBox) = <<>>)
        ELSE IF IsPrefix(UpperCheckedBox, trimmed)
        THEN ListHit(UncheckedBox, indent_len + 6, rest(UpperCheckedBox) = <<>>)
        ELSE IF IsPrefix(DashMarker, trimmed)
        THEN ListHit(DashMarker, indent_len + 2, rest(DashMarker) = <<>>)
        ELSE IF IsPrefix(StarMarker, trimmed)
        THEN ListHit(StarMarker, indent_len + 2, rest(StarMarker) = <<>>)
        ELSE IF IsPrefix(PlusMarker, trimmed)
        THEN ListHit(PlusMarker, indent_len + 2, rest(PlusMarker) = <<>>)
        ELSE IF number_end # None /\ parse_usize(Take(trimmed, number_end[1])) # None
        THEN ListHit(format_usize(parse_usize(Take(trimmed, number_end[1]))[1] + 1) \o <<46, 32>>,
                     indent_len + number_end[1] + 2,
                     Drop(trimmed, number_end[1] + 2) = <<>>)
        ELSE None

newline(e) ==
    LET e1 == delete_selection(reset_edit_time(push_undo_state(e))) IN
    IF e1.panicked THEN e1
    ELSE IF ~RowExists(e1, e1.state.cursor.row) THEN Panic(e1)
    ELSE
    LET row == e1.state.cursor.row
        col == e1.state.cursor.column
        line == Line(e1, row)
        hit == detect_list_pattern(line)
        split(second_prefix, new_col) ==
            IF ~is_char_boundary(line, col) THEN Panic(e1)
            ELSE [e1 EXCEPT !.state.lines =
                               VecInsert([@ EXCEPT ![row + 1] = Take(line, col)],
                                         row + 1, second_prefix \o Drop(line, col)),
                            !.state.cursor = Pos(row + 1, new_col)]
    IN  IF hit # None
        THEN IF hit[1].is_empty
             THEN [e1 EXCEPT !.state.lines =
                                VecInsert([@ EXCEPT ![row + 1] = Take(line, Len(line) - hit[1].pattern_len)],
                                          row + 1, <<>>),
                             !.state.cursor = Pos(row + 1, 0)]
             ELSE split(hit[1].pattern, Len(hit[1].pattern))
        ELSE split(<<>>, 0)

----------------------------------------------------------------------------
(* Cursor movement *)

\* the step to the left shared by move_left and select_left
step_left(e) ==
    LET row == e.state.cursor.row
        col == e.state.cursor.column
    IN  IF col > 0
        THEN IF ~RowExists(e, row) \/ ~is_char_boundary(Line(e, row), col) THEN Panic(e)
             ELSE [e EXCEPT !.state.cursor.column = last_char_start(Take(Line(e, row), col))]
        ELSE IF row > 0
        THEN IF ~RowExists(e, row - 1) THEN Panic(e)
             ELSE [e EXCEPT !.state.cursor = Pos(row - 1, Len(Line(e, row - 1)))]
        ELSE e

\* the step to the right shared by move_right and select_right
step_right(e) ==
    LET row == e.state.cursor.row
        col == e.state.cursor.column
    IN  IF ~RowExists(e, row) THEN Panic(e)
        ELSE IF col < Len(Line(e, row))
        THEN IF ~is_char_boundary(Line(e, row), col) THEN Panic(e)
             ELSE [e EXCEPT !.state.cursor.column = col + len_utf8(Line(e, row)[col + 1])]
        ELSE IF row + 1 < line_count(e)
        THEN [e EXCEPT !.state.cursor = Pos(row + 1, 0)]
        ELSE e

\* the step up shared by move_up and select_up
step_up(e) ==
    LET row == e.state.cursor.row IN
    IF row > 0
    THEN IF ~RowExists(e, row - 1) THEN Panic(e)
         ELSE [e EXCEPT !.state.cursor =
                           Pos(row - 1, Min(e.state.cursor.column, Len(Line(e, row - 1))))]
    ELSE e

\* the step down shared by move_down and select_down
step_down(e) ==
    LET row == e.state.cursor.row IN
    IF row + 1 < line_count(e)
    THEN [e EXCEPT !.state.cursor =
                      Pos(row + 1, Min(e.state.cursor.column, Len(Line(e, row + 1))))]
    ELSE e

move_left(e) == step_left(clear_selection(e))
move_right(e) == step_right(clear_selection(e))
move_up(e) == step_up(clear_selection(e))
move_down(e) == step_down(clear_selection(e))

move_to_line_start(e) == [clear_selection(e) EXCEPT !.state.cursor.column = 0]

move_to_line_end(e) ==
    IF ~RowExists(e, e.state.cursor.row) THEN Panic(clear_selection(e))
    ELSE [clear_selection(e) EXCEPT !.state.cursor.column = Len(Line(e, e.state.cursor.row))]

----------------------------------------------------------------------------
(* Word movement.  The scans index line.chars().nth(..) with a byte offset. *)

RECURSIVE skip_whitespace_left(_, _)
skip_whitespace_left(line, pos) ==
    IF pos > 0 /\ chars_nth(line, pos - 1) # None /\ is_whitespace(chars_nth(line, pos - 1)[1])
    THEN skip_whitespace_left(line, pos - 1)
    ELSE pos

RECURSIVE skip_word_left(_, _)
skip_word_left(line, pos) ==
    IF pos > 0
    THEN IF chars_nth(line, pos - 1) # None /\ is_not_word_char(chars_nth(line, pos - 1)[1])
         THEN pos
         ELSE skip_word_left(line, pos - 1)
    ELSE pos

RECURSIVE skip_word_right(_, _)
skip_word_right(line, pos) ==
    IF pos < Len(line)
    THEN IF chars_nth(line, pos) # None /\ is_not_word_char(chars_nth(line, pos)[1])
         THEN pos
         ELSE skip_word_right(line, pos + 1)
    ELSE pos

RECURSIVE skip_whitespace_right(_, _)
skip_whitespace_right(line, pos) ==
    IF pos < Len(line) /\ chars_nth(line, pos) # None /\ is_whitespace(chars_nth(line, pos)[1])
    THEN skip_whitespace_right(line, pos + 1)
    ELSE pos

move_word_left(e) ==
    LET e1 == clear_selection(e)
        row == e1.state.cursor.row
        col == e1.state.cursor.column
    IN  IF col = 0
        THEN IF row > 0
             THEN IF ~RowExists(e1, row - 1) THEN Panic(e1)
                  ELSE [e1 EXCEPT !.state.cursor = Pos(row - 1, Len(Line(e1, row - 1)))]
             ELSE e1
        ELSE IF ~RowExists(e1, row) THEN Panic(e1)
        ELSE [e1 EXCEPT !.state.cursor.column =
                           skip_word_left(Line(e1, row), skip_whitespace_left(Line(e1, row), col))]

move_word_right(e) ==
    LET e1 == clear_selection(e)
        row == e1.state.cursor.row
        col == e1.state.cursor.column
    IN  IF ~RowExists(e1, row) THEN Panic(e1)
        ELSE IF col >= Len(Line(e1, row))
        THEN IF row < line_count(e1) - 1
             THEN [e1 EXCEPT !.state.cursor = Pos(row + 1, 0)]
             ELSE e1
        ELSE [e1 EXCEPT !.state.cursor.column =
                           skip_whitespace_right(Line(e1, row), skip_word_right(Line(e1, row), col))]

----------------------------------------------------------------------------
(* History *)

\* a variant of undo that leaves the chunk timer running
undo_keeping_timer(e) ==
    IF e.undo_stack # <<>>
    THEN [e EXCEPT !.undo_stack = Take(@, Len(@) - 1),
                   !.redo_stack = Append(@, e.state),
                   !.state = e.undo_stack[Len(e.undo_stack)]]
    ELSE e

undo(e) ==
    IF e.undo_stack # <<>>
    THEN [e EXCEPT !.undo_stack = Take(@, Len(@) - 1),
                   !.redo_stack = Append(@, e.state),
                   !.state = e.undo_stack[Len(e.undo_stack)],
                   !.last_edit_time = None]
    ELSE e

\* a variant of redo that does not keep the state it leaves
redo_dropping_state(e) ==
    IF e.redo_stack # <<>>
    THEN [e EXCEPT !.redo_stack = Take(@, Len(@) - 1),
                   !.state = e.redo_stack[Len(e.redo_stack)],
                   !.last_edit_time = None]
    ELSE e

redo(e) ==
    IF e.redo_stack # <<>>
    THEN [e EXCEPT !.redo_stack = Take(@, Len(@) - 1),
                   !.undo_stack = Append(@, e.state),
                   !.state = e.redo_stack[Len(e.redo_stack)],
                   !.last_edit_time = None]
    ELSE e

----------------------------------------------------------------------------
(* Line edits *)

\* a variant without the one-row case: the only row is removed like any other
delete_line_removing_only_row(e) ==
    LET e1 == reset_edit_time(push_undo_state(e))
        row == e1.state.cursor.row
    IN  IF ~RowExists(e1, row) THEN Panic(e1)
        ELSE [e1 EXCEPT !.state.lines = VecRemove(@, row),
                        !.state.cursor = Pos(IF row < line_count(e1) - 1 THEN row ELSE SatSub(row, 1), 0),
                        !.state.selection_anchor = None]

delete_line(e) ==
    LET e1 == reset_edit_time(push_undo_state(e))
        row == e1.state.cursor.row
    IN  IF line_count(e1) = 1
        THEN [e1 EXCEPT !.state.lines = << <<>> >>,
                        !.state.cursor = Pos(0, 0),
                        !.state.selection_anchor = None]
        ELSE IF ~RowExists(e1, row) THEN Panic(e1)
        ELSE IF row < line_count(e1) - 1
        THEN [e1 EXCEPT !.state.lines = VecRemove(@, row),
                        !.state.cursor.column = 0,
                        !.state.selection_anchor = None]
        ELSE [e1 EXCEPT !.state.lines = VecRemove(@, row),
                        !.state.cursor = Pos(row - 1, 0),
                        !.state.selection_anchor = None]

delete_to_beginning_of_line(e) ==
    LET e1 == reset_edit_time(push_undo_state(e))
        row == e1.state.cursor.row
        col == e1.state.cursor.column
    IN  IF ~RowExists(e1, row) \/ ~is_char_boundary(Line(e1, row), col) THEN Panic(e1)
        ELSE [e1 EXCEPT !.state.lines[row + 1] = Drop(@, col),
                        !.state.cursor.column = 0]

\* a variant of delete_to_end_of_line that also moves the cursor to the row's start
delete_to_end_of_line_moving_cursor(e) ==
    LET e1 == reset_edit_time(push_undo_state(e))
        row == e1.state.cursor.row
        col == e1.state.cursor.column
    IN  IF ~RowExists(e1, row) \/ ~is_char_boundary(Line(e1, row), col) THEN Panic(e1)
        ELSE [e1 EXCEPT !.state.lines[row + 1] = Take(@, col),
                        !.state.cursor.column = 0]

delete_to_end_of_line(e) ==
    LET e1 == reset_edit_time(push_undo_state(e))
        row == e1.state.cursor.row
        col == e1.state.cursor.column
    IN  IF ~RowExists(e1, row) \/ ~is_char_boundary(Line(e1, row), col) THEN Panic(e1)
        ELSE [e1 EXCEPT !.state.lines[row + 1] = Take(@, col)]

delete_word_left(e) ==
    LET start_pos == e.state.cursor
        e1 == move_word_left(e)
        end_pos == e1.state.cursor
    IN  IF e1.panicked THEN e1
        ELSE IF start_pos.row = end_pos.row
        THEN LET e2 == reset_edit_time(push_undo_state(e1)) IN
             IF \/ ~RowExists(e2, end_pos.row)
                \/ ~replace_range_ok(Line(e2, end_pos.row), end_pos.column, start_pos.column)
             THEN Panic(e2)
             ELSE [e2 EXCEPT !.state.lines[end_pos.row + 1] =
                                replace_range(@, end_pos.column, start_pos.column)]
        ELSE e1

delete_word_right(e) ==
    LET start_pos == e.state.cursor
        e1 == move_word_right(e)
        end_pos == e1.state.cursor
    IN  IF e1.panicked THEN e1
        ELSE IF start_pos.row = end_pos.row
        THEN LET e2 == [reset_edit_time(push_undo_state(e1)) EXCEPT !.state.cursor = start_pos] IN
             IF \/ ~RowExists(e2, start_pos.row)
                \/ ~replace_range_ok(Line(e2, start_pos.row), start_pos.column, end_pos.column)
             THEN Panic(e2)
             ELSE [e2 EXCEPT !.state.lines[start_pos.row + 1] =
                                replace_range(@, start_pos.column, end_pos.column)]
        ELSE e1

\* Vec::swap(a, b), 0-based
VecSwap(v, a, b) == [v EXCEPT ![a + 1] = v[b + 1], ![b + 1] = v[a + 1]]

\* a variant of move_line_up that opens its undo chunk before looking at the row
move_line_up_pushing_first(e) ==
    LET row == e.state.cursor.row
        e1 == reset_edit_time(push_undo_state(e))
    IN  IF row = 0 THEN e1
        ELSE IF ~RowExists(e1, row) THEN Panic(e1)
        ELSE [e1 EXCEPT !.state.lines = VecSwap(@, row, row - 1),
                        !.state.cursor.row = row - 1]

move_line_up(e) ==
    LET row == e.state.cursor.row IN
    IF row = 0 THEN e
    ELSE LET e1 == reset_edit_time(push_undo_state(e)) IN
         IF ~RowExists(e1, row) THEN Panic(e1)
         ELSE [e1 EXCEPT !.state.lines = VecSwap(@, row, row - 1),
                         !.state.cursor.row = row - 1]

move_line_down(e) ==
    LET row == e.state.cursor.row IN
    IF row + 1 >= line_count(e) THEN e
    ELSE LET e1 == reset_edit_time(push_undo_state(e)) IN
         [e1 EXCEPT !.state.lines = VecSwap(@, row, row + 1),
                    !.state.cursor.row = row + 1]

----------------------------------------------------------------------------
(* Indentation *)

\* lines[row].insert_str(0, "    ") for every row of lo..=hi (all of them exist)
indent_rows(lines, lo, hi) ==
    [i \in 1..Len(lines) |-> IF i - 1 >= lo /\ i - 1 <= hi THEN FourSpaces \o lines[i] ELSE lines[i]]

tab(e) ==
    LET e1 == reset_edit_time(push_undo_state(e))
        r == selection_range(e1)
        row == e1.state.cursor.row
        col == e1.state.cursor.column
    IN  IF r # None
        THEN IF ~RowExists(e1, r[1].end.row) THEN Panic(e1)
             ELSE [e1 EXCEPT !.state.lines = indent_rows(@, r[1].start.row, r[1].end.row),
                             !.state.selection_anchor =
                                 Some(Pos(r[1].start.row, r[1].start.column + 4)),
                             !.state.cursor = Pos(r[1].end.row, r[1].end.column + 4)]
        ELSE IF ~RowExists(e1, row) \/ ~is_char_boundary(Line(e1, row), col) THEN Panic(e1)
        ELSE [e1 EXCEPT !.state.lines[row + 1] = Take(@, col) \o FourSpaces \o Drop(@, col),
                        !.state.cursor.column = col + 4]

\* line.chars().take(4).take_while(|&c| c == ' ').count()
RECURSIVE leading_spaces(_, _)
leading_spaces(cs, limit) ==
    IF limit > 0 /\ cs # <<>> /\ Head(cs) = SP
    THEN 1 + leading_spaces(Tail(cs), limit - 1)
    ELSE 0

spaces_to_remove(line) == leading_spaces(chars(line), 4)

\* the loop of outdent over the rows lo..=hi (all of them exist)
outdent_rows(lines, lo, hi) ==
    [i \in 1..Len(lines) |->
        IF i - 1 >= lo /\ i - 1 <= hi THEN Drop(lines[i], spaces_to_remove(lines[i])) ELSE lines[i]]

outdent(e) ==
    LET e1 == reset_edit_time(push_undo_state(e))
        r == selection_range(e1)
        row == e1.state.cursor.row
    IN  IF r # None
        THEN IF ~RowExists(e1, r[1].end.row) THEN Panic(e1)
             ELSE [e1 EXCEPT !.state.lines = outdent_rows(@, r[1].start.row, r[1].end.row),
                             !.state.selection_anchor =
                                 Some(Pos(r[1].start.row, SatSub(r[1].start.column, 4))),
                             !.state.cursor = Pos(r[1].end.row, SatSub(r[1].end.column, 4))]
        ELSE IF ~RowExists(e1, row) THEN Panic(e1)
        ELSE IF spaces_to_remove(Line(e1, row)) > 0
        THEN [e1 EXCEPT !.state.lines[row + 1] = Drop(@, spaces_to_remove(Line(e1, row))),
                        !.state.cursor.column = SatSub(@, spaces_to_remove(Line(e1, row)))]
        ELSE e1

----------------------------------------------------------------------------
(* Selection actions *)

\* `if self.state.selection_anchor.is_none() { anchor = Some(cursor) }`
pin_anchor(e) ==
    IF e.state.selection_anchor = None
    THEN [e EXCEPT !.state.selection_anchor = Some(e.state.cursor)]
    ELSE e

select_left(e) == step_left(pin_anchor(e))
select_right(e) == step_right(pin_anchor(e))
select_up(e) == step_up(pin_anchor(e))
select_down(e) == step_down(pin_anchor(e))
select_word_left(e) == move_word_left(pin_anchor(e))
select_word_right(e) == move_word_right(pin_anchor(e))

select_all(e) ==
    LET last_row == SatSub(line_count(e), 1) IN
    IF ~RowExists(e, last_row) THEN Panic(e)
    ELSE [e EXCEPT !.state.selection_anchor = Some(Pos(0, 0)),
                   !.state.cursor = Pos(last_row, Len(Line(e, last_row)))]

\* a variant that clamps the column to the length of the row the cursor is on
clamp_position_to_cursor_row(e, row, column) ==
    LET r == Min(row, SatSub(line_count(e), 1)) IN
    Pos(r, Min(column, Len(Line(e, Min(e.state.cursor.row, SatSub(line_count(e), 1))))))

\* the clamping shared by set_cursor_position, start_selection and extend_selection
clamp_position(e, row, column) ==
    LET r == Min(row, SatSub(line_count(e), 1)) IN Pos(r, Min(column, Len(Line(e, r))))

set_cursor_position(e, row, column) ==
    IF line_count(e) = 0 THEN Panic(clear_selection(e))
    ELSE [clear_selection(e) EXCEPT !.state.cursor = clamp_position(e, row, column)]

start_selection(e, row, column) ==
    IF line_count(e) = 0 THEN Panic(e)
    ELSE [e EXCEPT !.state.cursor = clamp_position(e, row, column),
                   !.state.selection_anchor = Some(clamp_position(e, row, column))]

extend_selection(e, row, column) ==
    IF line_count(e) = 0 THEN Panic(pin_anchor(e))
    ELSE [pin_anchor(e) EXCEPT !.state.cursor = clamp_position(e, row, column)]

----------------------------------------------------------------------------
(* View *)

\* a variant of the increase without the cap
increase_font_size_uncapped(e) == [e EXCEPT !.state.font_size = @ + 2]

increase_font_size(e) == [e EXCEPT !.state.font_size = Min(@ + 2, 72)]
decrease_font_size(e) == [e EXCEPT !.state.font_size = Max(@ - 2, 8)]
reset_font_size(e) == [e EXCEPT !.state.font_size = 14]

----------------------------------------------------------------------------
(* Persistence *)

\* the pieces of a string between its '\n' bytes (str::split('\n'))
RECURSIVE split_newline(_)
split_newline(s) ==
    IF \A i \in 1..Len(s) : s[i] # 10 THEN <<s>>
    ELSE LET k == CHOOSE i \in 1..Len(s) : s[i] = 10 /\ \A j \in 1..(i - 1) : s[j] # 10
         IN  <<Take(s, k - 1)>> \o split_newline(Drop(s, k))

\* str::lines: lines end at "\n" or "\r\n"; an empty last piece is no line
str_lines(content) ==
    LET pieces == split_newline(content)
        kept == IF pieces[Len(pieces)] = <<>> THEN Take(pieces, Len(pieces) - 1) ELSE pieces
        strip_cr(i) ==
            IF i < Len(pieces) /\ kept[i] # <<>> /\ kept[i][Len(kept[i])] = 13
            THEN Take(kept[i], Len(kept[i]) - 1)
            ELSE kept[i]
    IN  [i \in 1..Len(kept) |-> strip_cr(i)]

\* a variant that leaves the chunk timer running across the load
load_from_file_keeping_timer(e, content) ==
    [e EXCEPT !.state.lines = IF content = <<>> THEN << <<>> >> ELSE str_lines(content),
              !.state.cursor = Pos(0, 0),
              !.state.selection_anchor = None,
              !.undo_stack = <<>>,
              !.redo_stack = <<>>]

\* load_from_file when fs::read_to_string returns Ok(content)
load_from_file(e, content) ==
    [e EXCEPT !.state.lines = IF content = <<>> THEN << <<>> >> ELSE str_lines(content),
              !.state.cursor = Pos(0, 0),
              !.state.selection_anchor = None,
              !.undo_stack = <<>>,
              !.redo_stack = <<>>,
              !.last_edit_time = None]

----------------------------------------------------------------------------
(* Inputs of the model *)

TypedChars == {CharA, SP, CharEAcute, NL}

\* "é-"
TypedStrings == {CharEAcute \o CharDash}

\* (row, column) arguments, in and out of range
Positions == {Pos(0, 1), Pos(9, 9)}

\* file contents: empty, "a\né\n", "\nab", "- [x] a\n9. b\n- "
FileContents ==
    {<<>>, <<97, 10, 195, 169, 10>>, <<10, 97, 98>>,
     <<45, 32, 91, 120, 93, 32, 97, 10, 57, 46, 32, 98, 10, 45, 32>>}

\* milliseconds that may pass between two operations
Delays == {499, 500, 501}

----------------------------------------------------------------------------
(* Text conversion (EditorState::to_string / from_string) *)

\* [String]::join("\n")
RECURSIVE join_newline(_)
join_newline(lines) ==
    IF lines = <<>> THEN <<>>
    ELSE IF Len(lines) = 1 THEN lines[1]
    ELSE lines[1] \o NL \o join_newline(Tail(lines))

to_string(st) == join_newline(st.lines)

\* a variant that splits with str::lines, as load_from_file does
from_string_by_lines(content) ==
    [lines |-> IF content = <<>> THEN << <<>> >> ELSE str_lines(content),
     cursor |-> Pos(0, 0), selection_anchor |-> None, font_size |-> 14]

from_string(content) ==
    [lines |-> IF content = <<>> THEN << <<>> >> ELSE split_newline(content),
     cursor |-> Pos(0, 0), selection_anchor |-> None, font_size |-> 14]

NoEmbeddedNewline(st) ==
    \A i \in 1..Len(st.lines) : \A j \in 1..Len(st.lines[i]) : st.lines[i][j] # 10

\* a variant that clears the history before it reads the file
try_load_clearing_first(e, read) ==
    IF read = None
    THEN [engine |-> [e EXCEPT !.undo_stack = <<>>, !.redo_stack = <<>>, !.last_edit_time = None],
          ok |-> FALSE]
    ELSE [engine |-> load_from_file(e, read[1]), ok |-> TRUE]

\* load_from_file with its io::Result; read is None for Err and Some(content) for
\* Ok(content): `fs::read_to_string(path)?` returns before any change
try_load_from_file(e, read) ==
    IF read = None
    THEN [engine |-> e, ok |-> FALSE]
    ELSE [engine |-> load_from_file(e, read[1]), ok |-> TRUE]

\* save_to_file(&self): the engine, the io::Result, and the text handed to fs::write
save_to_file(e, writable) ==
    [engine |-> e, ok |-> writable,
     written |-> IF writable THEN Some(join_newline(e.state.lines)) ELSE None]

----------------------------------------------------------------------------
(* The text buffer of the GPUI front end (zlyph-gpui/src/text_buffer.rs) *)
(*                                                                          *)
(* A TextBuffer is a record [lines, line_layouts]; a CachedLineLayout is a  *)
(* record [font_size, wrap_width, visual_lines].  The shaped line is what   *)
(* the text system makes of the row's text in the buffer's monospace font:  *)
(* every character advances by the font size, in the unit of wrap widths.   *)

\* str::char_indices: each character with the byte offset it starts at
RECURSIVE char_indices_from(_, _)
char_indices_from(s, at) ==
    IF s = <<>> THEN <<>>
    ELSE LET w == Min(len_utf8(s[1]), Len(s))
         IN  <<[idx |-> at, ch |-> Take(s, w)]>> \o char_indices_from(Drop(s, w), at + w)

char_indices(line) == char_indices_from(line, 0)

\* ShapedLine::x_for_index, for the line of characters cs: the advance of the
\* characters that start before index
x_for_index(cs, index, font_size) ==
    font_size * Cardinality({k \in 1..Len(cs) : cs[k].idx < index})

\* u8::is_ascii_whitespace
is_ascii_whitespace(b) == b \in {32, 9, 10, 12, 13}

VisualLine(from, to, wrap) == [byte_range |-> [start |-> from, end |-> to], wrap_type |-> wrap]

\* a variant of try_hyphenate_word that splits the word
try_hyphenate_word_splitting == Some(<<VisualLine(0, 1, "Hyphenated")>>)

\* try_hyphenate_word: hyphenation is disabled
try_hyphenate_word == None

\* `while current_start < line.len() && line.as_bytes()[current_start].is_ascii_whitespace()`
RECURSIVE skip_ascii_whitespace(_, _)
skip_ascii_whitespace(line, at) ==
    IF at < Len(line) /\ is_ascii_whitespace(line[at + 1])
    THEN skip_ascii_whitespace(line, at + 1)
    ELSE at

\* one turn of compute_visual_lines' loop over the characters, at the i-th of them
wrap_step(line, font_size, wrap_width, cs, i, st) ==
    LET byte_idx == cs[i].idx
        next_byte_idx == IF i < Len(cs) THEN cs[i + 1].idx ELSE Len(line)
        x_pos_relative == x_for_index(cs, next_byte_idx, font_size)
                             - x_for_index(cs, st.current_start, font_size)
        boundary == IF is_whitespace(cs[i].ch) THEN Some(next_byte_idx)
                    ELSE st.last_word_boundary
    IN  IF x_pos_relative > wrap_width
        THEN IF boundary # None /\ boundary[1] > st.current_start
             THEN [visual_lines |->
                       Append(st.visual_lines, VisualLine(st.current_start, boundary[1], "SoftWrap")),
                   current_start |-> skip_ascii_whitespace(line, boundary[1]),
                   last_word_boundary |-> None]
             ELSE IF byte_idx > st.current_start
             THEN IF try_hyphenate_word # None
                  THEN [visual_lines |-> st.visual_lines \o try_hyphenate_word[1],
                        current_start |-> next_byte_idx,
                        last_word_boundary |-> None]
                  ELSE [visual_lines |->
                            Append(st.visual_lines, VisualLine(st.current_start, byte_idx, "HardWrap")),
                        current_start |-> byte_idx,
                        last_word_boundary |-> None]
             ELSE [st EXCEPT !.last_word_boundary = None]
        ELSE [st EXCEPT !.last_word_boundary = boundary]

RECURSIVE wrap_loop(_, _, _, _, _, _)
wrap_loop(line, font_size, wrap_width, cs, i, st) ==
    IF i > Len(cs) THEN st
    ELSE wrap_loop(line, font_size, wrap_width, cs, i + 1,
                   wrap_step(line, font_size, wrap_width, cs, i, st))

compute_visual_lines(line, font_size, wrap_width) ==
    IF line = <<>> THEN <<VisualLine(0, 0, "SoftWrap")>>
    ELSE LET st == wrap_loop(line, font_size, wrap_width, char_indices(line), 1,
                             [visual_lines |-> <<>>, current_start |-> 0,
                              last_word_boundary |-> None])
             with_rest == IF st.current_start < Len(line)
                          THEN Append(st.visual_lines,
                                      VisualLine(st.current_start, Len(line), "SoftWrap"))
                          ELSE st.visual_lines
         IN  IF with_rest = <<>> THEN <<VisualLine(0, Len(line), "SoftWrap")>> ELSE with_rest

\* TextBuffer::new
NewTextBuffer == [lines |-> << <<>> >>, line_layouts |-> <<None>>]

\* a variant of invalidate_layout that keeps the slot
invalidate_layout_keeping_slot(b, row) == b

invalidate_layout(b, row) ==
    IF row < Len(b.line_layouts) THEN [b EXCEPT !.line_layouts[row + 1] = None] ELSE b

invalidate_all_layouts(b) ==
    [b EXCEPT !.line_layouts = [i \in 1..Len(b.line_layouts) |-> None]]

\* String::remove(idx): the string without the character that starts at idx
string_remove(s, idx) == Take(s, idx) \o Drop(s, idx + len_utf8(s[idx + 1]))

\* TextBuffer::insert_char, for a column that is a character boundary of its row
buffer_insert_char(b, pos, ch) ==
    IF pos.row >= Len(b.lines) THEN b
    ELSE LET line == b.lines[pos.row + 1] IN
         IF ch = NL
         THEN invalidate_layout(
                  [b EXCEPT !.lines = VecInsert([@ EXCEPT ![pos.row + 1] = Take(line, pos.column)],
                                                pos.row + 1, Drop(line, pos.column)),
                            !.line_layouts = VecInsert(@, pos.row + 1, None)],
                  pos.row)
         ELSE invalidate_layout(
                  [b EXCEPT !.lines[pos.row + 1] = Take(line, pos.column) \o ch \o Drop(line, pos.column)],
                  pos.row)

\* TextBuffer::insert_str
buffer_insert_str(b, pos, text) ==
    IF pos.row >= Len(b.lines) THEN b
    ELSE LET line == b.lines[pos.row + 1]
             before == Take(line, pos.column)
             after == Drop(line, pos.column)
             new_lines == split_newline(text)
             n == Len(new_lines)
         IN  IF n = 1
             THEN invalidate_layout([b EXCEPT !.lines[pos.row + 1] = before \o text \o after], pos.row)
             ELSE [lines |-> Take(b.lines, pos.row)
                                \o <<before \o new_lines[1]>>
                                \o [i \in 1..(n - 1) |->
                                       IF i = n - 1 THEN new_lines[i + 1] \o after
                                       ELSE new_lines[i + 1]]
                                \o Drop(b.lines, pos.row + 1),
                   line_layouts |-> Take(invalidate_layout(b, pos.row).line_layouts, pos.row + 1)
                                \o [i \in 1..(n - 1) |-> None]
                                \o Drop(b.line_layouts, pos.row + 1)]

\* TextBuffer::delete_char
buffer_delete_char(b, pos) ==
    IF pos.row >= Len(b.lines) THEN b
    ELSE LET line == b.lines[pos.row + 1] IN
         IF pos.column >= Len(line)
         THEN IF pos.row + 1 < Len(b.lines)
              THEN invalidate_layout(
                       [b EXCEPT !.lines = VecRemove([@ EXCEPT ![pos.row + 1] = line \o b.lines[pos.row + 2]],
                                                     pos.row + 1),
                                 !.line_layouts = VecRemove(@, pos.row + 1)],
                       pos.row)
              ELSE b
         ELSE invalidate_layout([b EXCEPT !.lines[pos.row + 1] = string_remove(line, pos.column)],
                                pos.row)

\* `while new_pos > 0 && !line.is_char_boundary(new_pos) { new_pos -= 1 }`
RECURSIVE back_to_char_boundary(_, _)
back_to_char_boundary(line, new_pos) ==
    IF new_pos > 0 /\ ~is_char_boundary(line, new_pos)
    THEN back_to_char_boundary(line, new_pos - 1)
    ELSE new_pos

\* TextBuffer::backspace, for a position inside the buffer
buffer_backspace(b, pos) ==
    IF pos.column > 0
    THEN LET line == b.lines[pos.row + 1] IN
         invalidate_layout(
             [b EXCEPT !.lines[pos.row + 1] =
                           string_remove(line, back_to_char_boundary(line, pos.column - 1))],
             pos.row)
    ELSE IF pos.row > 0
    THEN invalidate_layout(
             [b EXCEPT !.lines = VecRemove([@ EXCEPT ![pos.row] = @ \o b.lines[pos.row + 1]], pos.row),
                       !.line_layouts = VecRemove(@, pos.row)],
             pos.row - 1)
    ELSE b

\* TextBuffer::delete_range, for positions inside the buffer
buffer_delete_range(b, from, to) ==
    IF from = to THEN b
    ELSE LET swap == from.row > to.row \/ (from.row = to.row /\ from.column > to.column)
             start == IF swap THEN to ELSE from
             end == IF swap THEN from ELSE to
         IN  IF start.row = end.row
             THEN invalidate_layout(
                      [b EXCEPT !.lines[start.row + 1] = Take(@, start.column) \o Drop(@, end.column)],
                      start.row)
             ELSE invalidate_layout(
                      [lines |-> Take(b.lines, start.row)
                                    \o <<Take(b.lines[start.row + 1], start.column)
                                            \o Drop(b.lines[end.row + 1], end.column)>>
                                    \o Drop(b.lines, end.row + 1),
                       line_layouts |-> Take(b.line_layouts, start.row + 1)
                                    \o Drop(b.line_layouts, end.row + 1)],
                      start.row)

\* a variant of the cache test that looks at the font size only
needs_reshaping_on_font_change(b, row, font_size, wrap_width) ==
    \/ b.line_layouts[row + 1] = None
    \/ b.line_layouts[row + 1][1].font_size # font_size

\* `needs_reshaping` of get_or_shape_line
needs_reshaping(b, row, font_size, wrap_width) ==
    \/ b.line_layouts[row + 1] = None
    \/ b.line_layouts[row + 1][1].font_size # font_size
    \/ b.line_layouts[row + 1][1].wrap_width # wrap_width

\* TextBuffer::get_or_shape_line: the buffer it leaves
get_or_shape_line(b, row, font_size, wrap_width) ==
    IF row >= Len(b.lines) THEN b
    ELSE IF needs_reshaping(b, row, font_size, wrap_width)
    THEN [b EXCEPT !.line_layouts[row + 1] =
             Some([font_size |-> font_size,
                   wrap_width |-> wrap_width,
                   visual_lines |-> compute_visual_lines(b.lines[row + 1], font_size, wrap_width)])]
    ELSE b

\* the calls of text_system.shape_line that get_or_shape_line makes
shape_line_calls(b, row, font_size, wrap_width) ==
    IF row < Len(b.lines) /\ needs_reshaping(b, row, font_size, wrap_width) THEN 1 ELSE 0

get_visual_lines(b, row) ==
    IF row < Len(b.line_layouts) /\ b.line_layouts[row + 1] # None
    THEN Some(b.line_layouts[row + 1][1].visual_lines)
    ELSE None

\* the visual rows of the buffer, a row without a cached layout counting as one
TotalVisualRows(b) ==
    LET RECURSIVE sum(_)
        sum(row) ==
            IF row >= Len(b.line_layouts) THEN 0
            ELSE (IF get_visual_lines(b, row) # None THEN Len(get_visual_lines(b, row)[1]) ELSE 1)
                     + sum(row + 1)
    IN  sum(0)

\* TextBuffer::visual_line_count: the visual lines of the cached layouts
visual_line_count(b) ==
    LET RECURSIVE sum(_)
        sum(row) ==
            IF row >= Len(b.line_layouts) THEN 0
            ELSE (IF get_visual_lines(b, row) # None THEN Len(get_visual_lines(b, row)[1]) ELSE 0)
                     + sum(row + 1)
    IN  sum(0)

VisualPos(r, c) == [visual_row |-> r, column |-> c]

\* the visual rows of the buffer rows before `row`, as buffer_to_visual counts them
RECURSIVE visual_rows_before(_, _)
visual_rows_before(b, row) ==
    IF row = 0 THEN 0
    ELSE visual_rows_before(b, row - 1)
            + (IF get_visual_lines(b, row - 1) # None THEN Len(get_visual_lines(b, row - 1)[1]) ELSE 1)

\* TextBuffer::buffer_to_visual
buffer_to_visual(b, buffer_pos) ==
    LET visual_row == visual_rows_before(b, Min(buffer_pos.row, Len(b.lines)))
        found == get_visual_lines(b, buffer_pos.row)
        hits == IF found = None THEN {}
                ELSE {i \in 1..Len(found[1]) :
                        \/ /\ buffer_pos.column >= found[1][i].byte_range.start
                           /\ buffer_pos.column < found[1][i].byte_range.end
                        \/ /\ buffer_pos.column = found[1][i].byte_range.end
                           /\ i = Len(found[1])}
    IN  IF hits = {} THEN VisualPos(visual_row, 0)
        ELSE LET i == CHOOSE k \in hits : \A j \in hits : k <= j
             IN  VisualPos(visual_row + i - 1, buffer_pos.column - found[1][i].byte_range.start)

\* TextBuffer::line_len
line_len(b, row) == IF row < Len(b.lines) THEN Len(b.lines[row + 1]) ELSE 0

\* the loop of visual_to_buffer from buffer_row on, visual_row_counter rows counted so far
RECURSIVE visual_to_buffer_from(_, _, _, _)
visual_to_buffer_from(b, visual_pos, buffer_row, visual_row_counter) ==
    IF buffer_row >= Len(b.lines)
    THEN LET last_row == SatSub(Len(b.lines), 1) IN Pos(last_row, line_len(b, last_row))
    ELSE LET found == get_visual_lines(b, buffer_row) IN
         IF found # None
         THEN IF visual_pos.visual_row - visual_row_counter < Len(found[1])
              THEN LET visual_line == found[1][visual_pos.visual_row - visual_row_counter + 1]
                   IN  Pos(buffer_row,
                           visual_line.byte_range.start
                              + Min(visual_pos.column,
                                    visual_line.byte_range.end - visual_line.byte_range.start))
              ELSE visual_to_buffer_from(b, visual_pos, buffer_row + 1,
                                         visual_row_counter + Len(found[1]))
         ELSE IF visual_row_counter = visual_pos.visual_row
              THEN Pos(buffer_row, Min(visual_pos.column, line_len(b, buffer_row)))
              ELSE visual_to_buffer_from(b, visual_pos, buffer_row + 1, visual_row_counter + 1)

\* TextBuffer::visual_to_buffer
visual_to_buffer(b, visual_pos) == visual_to_buffer_from(b, visual_pos, 0, 0)

\* TextBuffer::move_visual_up
move_visual_up(b, buffer_pos) ==
    LET visual_pos == buffer_to_visual(b, buffer_pos) IN
    IF visual_pos.visual_row = 0 THEN buffer_pos
    ELSE visual_to_buffer(b, VisualPos(visual_pos.visual_row - 1, visual_pos.column))

\* TextBuffer::move_visual_down
move_visual_down(b, buffer_pos) ==
    LET visual_pos == buffer_to_visual(b, buffer_pos)
        max_visual_row == SatSub(visual_line_count(b), 1)
    IN  IF visual_pos.visual_row >= max_visual_row THEN buffer_pos
        ELSE visual_to_buffer(b, VisualPos(visual_pos.visual_row + 1, visual_pos.column))

----------------------------------------------------------------------------
(* The state machine *)

\* the front end after TuiEditor::new over an existing, empty document file
AdapterInit ==
    /\ file = [content |-> <<>>, mtime |-> 0]
    /\ last_modified = Some(0)
    /\ clock = 0
    /\ pc = "poll"
    /\ seen = 0
    /\ since = "event"

Init ==
    /\ state = NewState
    /\ undo_stack = <<>>
    /\ redo_stack = <<>>
    /\ last_edit_time = None
    /\ panicked = FALSE
    /\ steps = 0
    /\ run = None
    /\ buffer = NewTextBuffer
    /\ buf_steps = 0
    /\ AdapterInit

(* The history variable `run` follows the runs of character-level edits      *)
(* (TypeCharacter, TypeString, Backspace, Delete): a run starts at such an  *)
(* edit that opens an undo chunk, goes on with every further such edit made *)
(* less than 500 ms after the previous one, is left alone by navigation,    *)
(* selection, view and platform actions, and ends at any other operation.   *)
(* It records the state before the run's first edit, the undo frames and    *)
(* the edits of the run, the time since its last edit, and whether it began *)
(* more than 500 ms after the last edit of the run before it.               *)
RunAfter(kind, e) ==
    LET pushed == Len(e.undo_stack) - Len(undo_stack) IN
    IF kind = "edit"
    THEN IF run # None /\ run[1].age < 500
         THEN Some([run[1] EXCEPT !.frames = @ + pushed, !.edits = @ + 1, !.age = 0])
         ELSE IF pushed = 1
         THEN Some([base |-> state, frames |-> 1, edits |-> 1, age |-> 0,
                    split |-> run # None /\ run[1].age > 500])
         ELSE None
    ELSE IF kind = "neutral" THEN run
    ELSE None

\* an operation is handled while the process lives and the model's budget lasts
CanAct == ~panicked /\ steps < MaxSteps

\* the engine after one call of a method, which leaves it as e
Becomes(e, kind) ==
    /\ state' = e.state
    /\ undo_stack' = e.undo_stack
    /\ redo_stack' = e.redo_stack
    /\ last_edit_time' = e.last_edit_time
    /\ panicked' = e.panicked
    /\ steps' = steps + 1
    /\ run' = RunAfter(kind, e)
    /\ UNCHANGED buffer_vars
    /\ UNCHANGED adapter_vars

TypeCharacter == \E c \in TypedChars : CanAct /\ Becomes(type_character(Eng, c), "edit")
TypeString == \E s \in TypedStrings : CanAct /\ Becomes(type_string(Eng, s), "edit")
Backspace == CanAct /\ Becomes(backspace(Eng), "edit")
Delete == CanAct /\ Becomes(delete(Eng), "edit")
Newline == CanAct /\ Becomes(newline(Eng), "boundary")
MoveLeft == CanAct /\ Becomes(move_left(Eng), "neutral")
MoveRight == CanAct /\ Becomes(move_right(Eng), "neutral")
MoveUp == CanAct /\ Becomes(move_up(Eng), "neutral")
MoveDown == CanAct /\ Becomes(move_down(Eng), "neutral")
MoveToBeginningOfLine == CanAct /\ Becomes(move_to_line_start(Eng), "neutral")
MoveToEndOfLine == CanAct /\ Becomes(move_to_line_end(Eng), "neutral")
MoveWordLeft == CanAct /\ Becomes(move_word_left(Eng), "neutral")
MoveWordRight == CanAct /\ Becomes(move_word_right(Eng), "neutral")
Undo == CanAct /\ Becomes(undo(Eng), "history")
Redo == CanAct /\ Becomes(redo(Eng), "history")
DeleteLine == CanAct /\ Becomes(delete_line(Eng), "boundary")
DeleteToBeginningOfLine == CanAct /\ Becomes(delete_to_beginning_of_line(Eng), "boundary")
DeleteToEndOfLine == CanAct /\ Becomes(delete_to_end_of_line(Eng), "boundary")
DeleteWordLeft == CanAct /\ Becomes(delete_word_left(Eng), "boundary")
DeleteWordRight == CanAct /\ Becomes(delete_word_right(Eng), "boundary")
MoveLineUp == CanAct /\ Becomes(move_line_up(Eng), "boundary")
MoveLineDown == CanAct /\ Becomes(move_line_down(Eng), "boundary")
Tab == CanAct /\ Becomes(tab(Eng), "boundary")
Outdent == CanAct /\ Becomes(outdent(Eng), "boundary")
SelectLeft == CanAct /\ Becomes(select_left(Eng), "neutral")
SelectRight == CanAct /\ Becomes(select_right(Eng), "neutral")
SelectUp == CanAct /\ Becomes(select_up(Eng), "neutral")
SelectDown == CanAct /\ Becomes(select_down(Eng), "neutral")
SelectWordLeft == CanAct /\ Becomes(select_word_left(Eng), "neutral")
SelectWordRight == CanAct /\ Becomes(select_word_right(Eng), "neutral")
SelectAll == CanAct /\ Becomes(select_all(Eng), "neutral")
IncreaseFontSize == CanAct /\ Becomes(increase_font_size(Eng), "neutral")
DecreaseFontSize == CanAct /\ Becomes(decrease_font_size(Eng), "neutral")
ResetFontSize == CanAct /\ Becomes(reset_font_size(Eng), "neutral")
\* Cut, Copy, Paste(_) and Quit are left to the platform: the engine does nothing
Clipboard == CanAct /\ Becomes(Eng, "neutral")
Quit == CanAct /\ Becomes(Eng, "neutral")
SetCursorPosition == \E p \in Positions : CanAct /\ Becomes(set_cursor_position(Eng, p.row, p.column), "neutral")
StartSelection == \E p \in Positions : CanAct /\ Becomes(start_selection(Eng, p.row, p.column), "neutral")
ExtendSelection == \E p \in Positions : CanAct /\ Becomes(extend_selection(Eng, p.row, p.column), "neutral")
LoadFromFile == \E content \in FileContents : CanAct /\ Becomes(load_from_file(Eng, content), "load")
LoadFromFileFails == CanAct /\ Becomes(try_load_from_file(Eng, None).engine, "neutral")
SaveToFile == \E writable \in BOOLEAN : CanAct /\ Becomes(save_to_file(Eng, writable).engine, "neutral")

\* time passes before the next operation; a reading past UNDO_CHUNK_DURATION saturates
Tick ==
    /\ ~panicked
    /\ steps < MaxSteps
    /\ last_edit_time # None
    /\ last_edit_time[1] < Saturated
    /\ \E d \in Delays :
          /\ last_edit_time' = Some(Min(last_edit_time[1] + d, Saturated))
          /\ run' = IF run = None THEN None
                    ELSE Some([run[1] EXCEPT !.age = Min(@ + d, Saturated)])
    /\ UNCHANGED <<state, undo_stack, redo_stack, panicked, steps>>
    /\ UNCHANGED buffer_vars
    /\ UNCHANGED adapter_vars

Next ==
    \/ TypeCharacter \/ TypeString \/ Backspace \/ Delete \/ Newline
    \/ MoveLeft \/ MoveRight \/ MoveUp \/ MoveDown
    \/ MoveToBeginningOfLine \/ MoveToEndOfLine \/ MoveWordLeft \/ MoveWordRight
    \/ Undo \/ Redo
    \/ DeleteLine \/ DeleteToBeginningOfLine \/ DeleteToEndOfLine
    \/ DeleteWordLeft \/ DeleteWordRight
    \/ MoveLineUp \/ MoveLineDown \/ Tab \/ Outdent
    \/ SelectLeft \/ SelectRight \/ SelectUp \/ SelectDown
    \/ SelectWordLeft \/ SelectWordRight \/ SelectAll
    \/ IncreaseFontSize \/ DecreaseFontSize \/ ResetFontSize
    \/ Clipboard \/ Quit
    \/ SetCursorPosition \/ StartSelection \/ ExtendSelection
    \/ LoadFromFile \/ LoadFromFileFails \/ SaveToFile
    \/ Tick

Spec == Init /\ [][Next]_vars

----------------------------------------------------------------------------
(* The state machine of the text buffer *)

\* TextBuffer::from_string
buffer_from_string(content) ==
    IF content = <<>> THEN NewTextBuffer
    ELSE [lines |-> split_newline(content),
          line_layouts |-> [i \in 1..Len(split_newline(content)) |-> None]]

\* contents a buffer is made from: empty, "ab  c", "a b\né  d", "abcd e"
BufferContents ==
    {<<>>, <<97, 98, 32, 32, 99>>, <<97, 32, 98, 10, 195, 169, 32, 32, 100>>,
     <<97, 98, 99, 100, 32, 101>>}

\* characters and strings inserted: 'a', ' ', 'é', '\n'; " b", "a\n c"
InsertedChars == {CharA, SP, CharEAcute, NL}
InsertedStrings == {<<32, 98>>, <<97, 10, 32, 99>>}

\* font sizes (the advance of a character) and wrap widths asked for, in the same unit
FontSizes == {1, 2}
WrapWidths == {2, 3}

\* the positions of a buffer: a row of it and a character boundary of that row
BufferPositions(b) ==
    {p \in [row : 0..(Len(b.lines) - 1), column : 0..MaxRowBytes] :
        p.column <= Len(b.lines[p.row + 1]) /\ is_char_boundary(b.lines[p.row + 1], p.column)}

\* the positions a caller may pass to insert_char, insert_str and delete_char, which
\* return at once for a row past the end
PositionsOrPastEnd(b) == BufferPositions(b) \cup {Pos(Len(b.lines), 0)}

\* no row of b is longer than the model lets rows grow
WithinRowBytes(b) == \A i \in 1..Len(b.lines) : Len(b.lines[i]) <= MaxRowBytes

BufInit ==
    /\ state = NewState
    /\ undo_stack = <<>>
    /\ redo_stack = <<>>
    /\ last_edit_time = None
    /\ panicked = FALSE
    /\ steps = 0
    /\ run = None
    /\ buffer \in {buffer_from_string(content) : content \in BufferContents}
    /\ buf_steps = 0
    /\ AdapterInit

BufCanAct == buf_steps < MaxBufSteps

BufBecomes(b) ==
    /\ buffer' = b
    /\ buf_steps' = buf_steps + 1
    /\ UNCHANGED engine_vars
    /\ UNCHANGED adapter_vars

InsertChar ==
    \E pos \in PositionsOrPastEnd(buffer), ch \in InsertedChars :
        /\ BufCanAct
        /\ WithinRowBytes(buffer_insert_char(buffer, pos, ch))
        /\ BufBecomes(buffer_insert_char(buffer, pos, ch))

InsertStr ==
    \E pos \in PositionsOrPastEnd(buffer), text \in InsertedStrings :
        /\ BufCanAct
        /\ WithinRowBytes(buffer_insert_str(buffer, pos, text))
        /\ BufBecomes(buffer_insert_str(buffer, pos, text))

DeleteChar ==
    \E pos \in PositionsOrPastEnd(buffer) : BufCanAct /\ BufBecomes(buffer_delete_char(buffer, pos))

BufferBackspace ==
    \E pos \in BufferPositions(buffer) : BufCanAct /\ BufBecomes(buffer_backspace(buffer, pos))

DeleteRange ==
    \E from \in BufferPositions(buffer), to \in BufferPositions(buffer) :
        BufCanAct /\ BufBecomes(buffer_delete_range(buffer, from, to))

GetOrShapeLine ==
    \E row \in 0..Len(buffer.lines), font_size \in FontSizes, wrap_width \in WrapWidths :
        BufCanAct /\ BufBecomes(get_or_shape_line(buffer, row, font_size, wrap_width))

InvalidateAllLayouts == BufCanAct /\ BufBecomes(invalidate_all_layouts(buffer))

BufNext ==
    \/ InsertChar \/ InsertStr \/ DeleteChar \/ BufferBackspace \/ DeleteRange
    \/ GetOrShapeLine \/ InvalidateAllLayouts

BufSpec == BufInit /\ [][BufNext]_vars

----------------------------------------------------------------------------
(* The state machine of the font size *)

(* The font size alone bounds the view actions: from 14 it moves in steps of *)
(* 2 between 8 and 72, so these actions need no budget.  The edits and the   *)
(* history actions, whose snapshots carry the font size, keep a budget.      *)

\* the engine after a view action, which leaves it as e
BecomesView(e) ==
    /\ state' = e.state
    /\ UNCHANGED <<undo_stack, redo_stack, last_edit_time, panicked, steps, run>>
    /\ UNCHANGED buffer_vars
    /\ UNCHANGED adapter_vars

FontCanEdit == ~panicked /\ steps < MaxFontEdits

FontIncrease == ~panicked /\ BecomesView(increase_font_size(Eng))
FontDecrease == ~panicked /\ BecomesView(decrease_font_size(Eng))
FontReset == ~panicked /\ BecomesView(reset_font_size(Eng))
FontTypeCharacter == FontCanEdit /\ Becomes(type_character(Eng, CharA), "edit")
FontUndo == FontCanEdit /\ Becomes(undo(Eng), "history")
FontRedo == FontCanEdit /\ Becomes(redo(Eng), "history")

FontNext ==
    \/ FontIncrease \/ FontDecrease \/ FontReset
    \/ FontTypeCharacter \/ FontUndo \/ FontRedo

FontSpec == Init /\ [][FontNext]_vars

----------------------------------------------------------------------------
(* The state machine of the front end's loop                                 *)
(*                                                                           *)
(* TuiEditor::run_loop and the GPUI editor's timer do the same: look at the  *)
(* file's modification time and reload the file if it is later than the one  *)
(* remembered, then wait for an event, handle it, save the document and      *)
(* remember the modification time the file has after the save.  Every call   *)
(* into the file system is a step of its own here, so that a write by        *)
(* another process may fall between any two of them.  The file system stamps *)
(* a write with the reading of its clock, which two writes may share.        *)

MaxClock == 2
MaxAdapterActions == 2

\* what another process writes to the file
ExternalContents == {CharDash, CharA \o CharA}

\* the actions the user's keys are translated to
AdapterActionResults(e) == {type_character(e, CharA), backspace(e), move_left(e)}

\* the engine after the front end has called it
AdapterEngineBecomes(e) ==
    /\ state' = e.state
    /\ undo_stack' = e.undo_stack
    /\ redo_stack' = e.redo_stack
    /\ last_edit_time' = e.last_edit_time
    /\ panicked' = e.panicked
    /\ UNCHANGED run
    /\ UNCHANGED buffer_vars

\* check_and_reload up to its comparison: the file's modification time is read
CheckModified ==
    /\ pc = "poll"
    /\ ~panicked
    /\ seen' = file.mtime
    /\ LET changed == last_modified = None \/ file.mtime > last_modified[1] IN
          /\ pc' = IF changed THEN "reload" ELSE "wait"
          /\ since' = IF changed THEN "polling" ELSE "polled"
    /\ UNCHANGED <<file, last_modified, clock, steps>>
    /\ UNCHANGED <<engine_vars, buffer_vars>>

\* the rest of check_and_reload: the file is read and the time read before is kept
Reload ==
    /\ pc = "reload"
    /\ AdapterEngineBecomes(load_from_file(Eng, file.content))
    /\ last_modified' = Some(seen)
    /\ pc' = "wait"
    /\ since' = IF since = "polling" THEN "polled" ELSE since
    /\ UNCHANGED <<file, clock, seen, steps>>

\* poll(100 ms) returns without an event
WaitTimesOut ==
    /\ pc = "wait"
    /\ pc' = "poll"
    /\ UNCHANGED <<file, last_modified, clock, seen, since>>
    /\ UNCHANGED <<engine_vars, buffer_vars>>

\* an event arrives: handle_action, then save_to_file writes the rows
HandleAction ==
    /\ pc = "wait"
    /\ steps < MaxAdapterActions
    /\ \E e \in AdapterActionResults(Eng) :
          /\ AdapterEngineBecomes(e)
          /\ IF e.panicked
             THEN pc' = "done" /\ UNCHANGED file
             ELSE /\ pc' = "saved"
                  /\ file' = [content |-> save_to_file(e, TRUE).written[1], mtime |-> clock]
    /\ steps' = steps + 1
    /\ since' = "event"
    /\ UNCHANGED <<last_modified, clock, seen>>

\* after the save: fs::metadata is read again and its time remembered
RecordModified ==
    /\ pc = "saved"
    /\ last_modified' = Some(file.mtime)
    /\ pc' = "poll"
    /\ UNCHANGED <<file, clock, seen, since>>
    /\ UNCHANGED <<engine_vars, buffer_vars>>

\* EditorAction::Quit: the document is saved and the loop left
QuitAndSave ==
    /\ pc = "wait"
    /\ file' = [content |-> save_to_file(Eng, TRUE).written[1], mtime |-> clock]
    /\ pc' = "done"
    /\ since' = "event"
    /\ UNCHANGED <<last_modified, clock, seen>>
    /\ UNCHANGED <<engine_vars, buffer_vars>>

\* another process writes the file
ExternalWrite ==
    \E content \in ExternalContents :
        /\ file' = [content |-> content, mtime |-> clock]
        /\ since' = "event"
        /\ UNCHANGED <<last_modified, clock, pc, seen>>
        /\ UNCHANGED <<engine_vars, buffer_vars>>

\* the clock of the file system moves on
ClockTick ==
    /\ clock < MaxClock
    /\ clock' = clock + 1
    /\ UNCHANGED <<file, last_modified, pc, seen, since>>
    /\ UNCHANGED <<engine_vars, buffer_vars>>

AdapterNext ==
    \/ CheckModified
    \/ Reload
    \/ WaitTimesOut
    \/ HandleAction
    \/ RecordModified
    \/ QuitAndSave
    \/ ExternalWrite
    \/ ClockTick

AdapterSpec == Init /\ [][AdapterNext]_vars

----------------------------------------------------------------------------
(* Properties *)

PositionInBounds(st, p) ==
    /\ p.row < Len(st.lines)
    /\ p.column <= Len(st.lines[p.row + 1])

PositionOnBoundary(st, p) ==
    p.row < Len(st.lines) /\ is_char_boundary(st.lines[p.row + 1], p.column)

Top(stack) == stack[Len(stack)]

\* C1: every action of the closed set, applied in any state reachable from a new
\* engine, runs to completion: no handler panics.
C1_NoActionPanics == ~panicked

\* C2: in every reachable state the cursor satisfies cursor.row < rowCount and
\* cursor.column <= byteLength(rows[cursor.row]).
C2_CursorInBounds == ~panicked => PositionInBounds(state, state.cursor)

\* C3: in every reachable state the selection anchor, when present, satisfies
\* anchor.row < rowCount and anchor.column <= byteLength(rows[anchor.row]).
C3_AnchorInBounds ==
    (~panicked /\ state.selection_anchor # None)
        => PositionInBounds(state, state.selection_anchor[1])

\* C4: in every reachable state cursor.column, and the anchor column when an
\* anchor is present, is a valid character boundary of its row.
C4_ColumnsOnCharBoundary ==
    ~panicked =>
        /\ PositionOnBoundary(state, state.cursor)
        /\ state.selection_anchor # None => PositionOnBoundary(state, state.selection_anchor[1])

\* C5: the document never has zero rows, in the current state and in every
\* frame that Undo or Redo can install; deleting a select-all selection,
\* DeleteLine on a one-row document and loading empty content leave exactly
\* one empty row, and loading any content leaves at least one row.
C5_NeverEmpty ==
    /\ Len(state.lines) >= 1
    /\ \A i \in 1..Len(undo_stack) : Len(undo_stack[i].lines) >= 1
    /\ \A i \in 1..Len(redo_stack) : Len(redo_stack[i].lines) >= 1
    /\ ~panicked =>
          /\ backspace(select_all(Eng)).state.lines = << <<>> >>
          /\ Len(state.lines) = 1 => delete_line(Eng).state.lines = << <<>> >>
          /\ load_from_file(Eng, <<>>).state.lines = << <<>> >>
          /\ \A content \in FileContents : Len(load_from_file(Eng, content).state.lines) >= 1

\* a document that DeleteLine, or a deletion of everything, has just cleared
C5_Witness ==
    /\ state.lines = << <<>> >>
    /\ last_edit_time = None
    /\ undo_stack # <<>>
    /\ Top(undo_stack).lines # << <<>> >>
    /\ redo_stack = <<>>

\* the engines the character-level edits lead to from e
CharEdits(e) ==
    {type_character(e, c) : c \in TypedChars} \cup {type_string(e, s) : s \in TypedStrings}
        \cup {backspace(e), delete(e)}

\* the engines the text-edit actions lead to from e
TextEdits(e) ==
    CharEdits(e) \cup
        {newline(e), delete_line(e), delete_to_beginning_of_line(e),
         delete_to_end_of_line(e), delete_word_left(e), delete_word_right(e)}

\* C6: for any reachable state and any edit action E, applying E, then Undo, then
\* Redo yields the rows, cursor and selection anchor of the state right after E.
C6_UndoRedoInverse ==
    ~panicked =>
        \A after \in TextEdits(Eng) :
            ~after.panicked => redo(undo(after)).state = after.state

\* C7: a run of character-level edits, each less than 500 ms after the previous
\* one, with only navigation or selection in between, pushes exactly one undo
\* frame, and a single Undo restores the state from before its first edit.
C7_RunIsOneFrame ==
    run # None =>
        /\ run[1].frames = 1
        /\ undo_stack # <<>>
        /\ undo(Eng).state = run[1].base

\* a run of two or more edits that has changed the document
C7_Witness ==
    /\ run # None
    /\ run[1].edits >= 2
    /\ state.lines # run[1].base.lines
    /\ ~panicked

\* a step that is one of the character-level edits
CharEditStep == steps' = steps + 1 /\ Eng' \in CharEdits(Eng)

\* C8 as stated: an edit issued 500 ms or more after the previous one, a gap of
\* exactly 500 ms included, pushes its own undo frame, the state it started from.
C8_SeparateAtOrAfter500 ==
    [][(CharEditStep /\ last_edit_time # None /\ last_edit_time[1] >= 500)
          => undo_stack' = Append(undo_stack, state)]_vars

\* C8 amended: an edit issued more than 500 ms after the previous one pushes its
\* own undo frame, the state it started from, so each is undone by its own Undo.
C8_SeparateAfter500 ==
    [][(CharEditStep /\ last_edit_time # None /\ last_edit_time[1] > 500)
          => /\ undo_stack' = Append(undo_stack, state)
             /\ (~panicked' => undo(Eng').state = state)]_vars

\* an edit that opened a run more than 500 ms after the edit before it, both with a frame
C8_Witness ==
    /\ run # None
    /\ run[1].split
    /\ Len(undo_stack) >= 2
    /\ Top(undo_stack) = run[1].base
    /\ ~panicked

\* C9: whenever an action pushes an undo frame, the frame is the full document
\* state (rows, cursor, selection anchor, font size) as it was before the action.
C9_FrameIsPreActionState ==
    [][Len(undo_stack') > Len(undo_stack) => undo_stack' = Append(undo_stack, state)]_vars

\* two engines that ended in the same document state
SameOutcome(a, b) == (~a.panicked /\ ~b.panicked) => a.state = b.state

\* C10: an edit action applied while a selection is active has the effect of
\* deleting the selected range, collapsing the cursor to the range start and
\* clearing the selection, and then applying the edit (for Backspace and Delete
\* the removal of the selection may be the whole of the edit).
C10_EditDeletesSelectionFirst ==
    (/\ ~panicked
     /\ state.selection_anchor # None
     /\ state.selection_anchor[1] # state.cursor
     /\ ~delete_selection(Eng).panicked) =>
        LET d == delete_selection(Eng) IN
        /\ \A c \in TypedChars : SameOutcome(type_character(Eng, c), type_character(d, c))
        /\ \A s \in TypedStrings : SameOutcome(type_string(Eng, s), type_string(d, s))
        /\ SameOutcome(backspace(Eng), d) \/ SameOutcome(backspace(Eng), backspace(d))
        /\ SameOutcome(delete(Eng), d) \/ SameOutcome(delete(Eng), delete(d))
        /\ SameOutcome(newline(Eng), newline(d))
        /\ SameOutcome(delete_line(Eng), delete_line(d))
        /\ SameOutcome(delete_to_beginning_of_line(Eng), delete_to_beginning_of_line(d))
        /\ SameOutcome(delete_to_end_of_line(Eng), delete_to_end_of_line(d))
        /\ SameOutcome(delete_word_left(Eng), delete_word_left(d))
        /\ SameOutcome(delete_word_right(Eng), delete_word_right(d))

----------------------------------------------------------------------------
(* Selection, positions and no-op edits *)

\* the engines the Select-* actions lead to from e
SelectResults(e) ==
    {select_left(e), select_right(e), select_up(e), select_down(e),
     select_word_left(e), select_word_right(e)}
        \cup {extend_selection(e, p.row, p.column) : p \in Positions}

\* C11: every Select-* action leaves the anchor at the pre-action cursor when no
\* anchor was set and leaves a set anchor unchanged, and moves only the cursor.
C11_SelectPinsAnchor ==
    ~panicked =>
        \A r \in SelectResults(Eng) :
            ~r.panicked =>
                /\ r.state.selection_anchor =
                      (IF state.selection_anchor = None THEN Some(state.cursor)
                       ELSE state.selection_anchor)
                /\ r.state.lines = state.lines
                /\ r.state.font_size = state.font_size

\* C12: for a state whose rows contain no embedded newline, from_string(to_string(s))
\* has exactly the rows of s, so converting it to text again gives the same text;
\* the empty text maps to a single empty row.
C12_TextRoundTrip ==
    /\ NoEmbeddedNewline(state) =>
          /\ from_string(to_string(state)).lines = state.lines
          /\ to_string(from_string(to_string(state))) = to_string(state)
    /\ from_string(<<>>).lines = << <<>> >>

\* a document of several rows, the last one empty, converted and back
C12_Witness ==
    /\ Len(state.lines) >= 2
    /\ state.lines[Len(state.lines)] = <<>>
    /\ \E i \in 1..Len(state.lines) : Len(state.lines[i]) >= 2
    /\ NoEmbeddedNewline(state)
    /\ from_string(to_string(state)).lines = state.lines

\* (row, column) arguments probed in every reachable state, in and out of range
ProbePositions == {Pos(r, c) : r \in 0..2, c \in 0..3} \cup {Pos(9, 9)}

\* the position the documentation of set_cursor_position promises for (row, column)
ClampedPosition(st, p) ==
    LET r == IF p.row < Len(st.lines) - 1 THEN p.row ELSE Len(st.lines) - 1
        len == Len(st.lines[r + 1])
    IN  [row |-> r, column |-> IF p.column < len THEN p.column ELSE len]

\* C13: SetCursorPosition, StartSelection and ExtendSelection accept any (row, column)
\* without failing and put the cursor at (min(row, rowCount-1), min(column, byte
\* length of that row)); SetCursorPosition clears the selection and StartSelection
\* sets the anchor to the clamped cursor.
C13_PositionsAreClamped ==
    ~panicked =>
        \A p \in ProbePositions :
            LET want == ClampedPosition(state, p)
                set == set_cursor_position(Eng, p.row, p.column)
                start == start_selection(Eng, p.row, p.column)
                extend == extend_selection(Eng, p.row, p.column)
            IN  /\ ~set.panicked /\ ~start.panicked /\ ~extend.panicked
                /\ set.state.cursor = want
                /\ set.state.selection_anchor = None
                /\ start.state.cursor = want
                /\ start.state.selection_anchor = Some(want)
                /\ extend.state.cursor = want
                /\ set.state.lines = state.lines
                /\ start.state.lines = state.lines
                /\ extend.state.lines = state.lines

\* StartSelection with an out-of-range position has acted on a document of several rows
C13_Witness ==
    /\ ~panicked
    /\ Len(state.lines) >= 2
    /\ state.cursor = Pos(Len(state.lines) - 1, Len(state.lines[Len(state.lines)]))
    /\ state.cursor.column > 0
    /\ state.selection_anchor = Some(state.cursor)
    /\ start_selection(Eng, 9, 9).state = state

\* the engine e2 has the document state and both history stacks of e1
SameDocumentAndHistory(e1, e2) ==
    /\ ~e2.panicked
    /\ e2.state = e1.state
    /\ e2.undo_stack = e1.undo_stack
    /\ e2.redo_stack = e1.redo_stack

AtDocumentStart == state.cursor = Pos(0, 0)
AtDocumentEnd ==
    /\ state.cursor.row = Len(state.lines) - 1
    /\ state.cursor.column = Len(state.lines[Len(state.lines)])

\* C14: with no selection active, Backspace at the document start and Delete at the
\* document end leave rows, cursor, anchor, the undo stack and the redo stack unchanged.
C14_NoOpChangesNothing ==
    (~panicked /\ state.selection_anchor = None) =>
        /\ AtDocumentStart => SameDocumentAndHistory(Eng, backspace(Eng))
        /\ AtDocumentEnd => SameDocumentAndHistory(Eng, delete(Eng))

----------------------------------------------------------------------------
(* Loading and saving *)

\* C15: a failed load leaves rows, cursor, selection, undo stack, redo stack and
\* chunk timer untouched, and a save, failed or not, changes no in-memory state;
\* a failed save returns an error.
C15_FailedIoChangesNothing ==
    ~panicked =>
        /\ try_load_from_file(Eng, None).engine = Eng
        /\ ~try_load_from_file(Eng, None).ok
        /\ \A writable \in BOOLEAN :
              /\ save_to_file(Eng, writable).engine = Eng
              /\ save_to_file(Eng, writable).ok = writable
              /\ ~writable => save_to_file(Eng, writable).written = None

\* a load fails in an engine with history, a running chunk and a selection
C15_Witness ==
    /\ ~panicked
    /\ undo_stack # <<>>
    /\ last_edit_time # None
    /\ state.selection_anchor # None
    /\ state.lines # << <<>> >>
    /\ try_load_from_file(Eng, None).engine = Eng

\* rows are the lines of content: none holds a newline, and joined with "\n" they
\* give content back, up to the newline that ends its last line
RowsAreLinesOf(rows, content) ==
    /\ \A i \in 1..Len(rows) : \A j \in 1..Len(rows[i]) : rows[i][j] # 10
    /\ \/ join_newline(rows) = content
       \/ join_newline(rows) \o NL = content

----------------------------------------------------------------------------
(* Wrapping, visual positions and the layout cache *)

\* the byte ranges of segs are contiguous, in order, and cover exactly [0, n)
CoversRow(segs, n) ==
    /\ segs # <<>>
    /\ segs[1].byte_range.start = 0
    /\ segs[Len(segs)].byte_range.end = n
    /\ \A i \in 1..Len(segs) : segs[i].byte_range.start <= segs[i].byte_range.end
    /\ \A i \in 1..(Len(segs) - 1) : segs[i].byte_range.end = segs[i + 1].byte_range.start

\* C17: for every row text and wrap width the byte ranges of the visual segments
\* are contiguous, do not overlap and cover exactly [0, rowLength), also when a soft
\* wrap falls on a whitespace character that is followed by more whitespace.
C17_WrapCoverage ==
    \A i \in 1..Len(buffer.lines) : \A font_size \in FontSizes, wrap_width \in WrapWidths :
        CoversRow(compute_visual_lines(buffer.lines[i], font_size, wrap_width),
                  Len(buffer.lines[i]))

\* C18: for every visual position v whose visual row lies in [0, totalVisualRows),
\* buffer_to_visual(visual_to_buffer(v)) = v.
C18_VisualRoundTrip ==
    \A visual_row \in 0..(TotalVisualRows(buffer) - 1), column \in 0..MaxRowBytes :
        buffer_to_visual(buffer, visual_to_buffer(buffer, VisualPos(visual_row, column)))
            = VisualPos(visual_row, column)

\* C19: move_visual_down from a position that is not on the last visual row gives a
\* position exactly one visual row further down, move_visual_up from a position not
\* on visual row 0 one exactly one row further up (a row without a cached layout
\* counting as one visual row); on the last and on the first visual row they
\* return the position unchanged.
C19_VisualMoveStepsOneRow ==
    \A p \in BufferPositions(buffer) :
        LET visual_row == buffer_to_visual(buffer, p).visual_row
            down == move_visual_down(buffer, p)
            up == move_visual_up(buffer, p)
        IN  /\ IF visual_row < TotalVisualRows(buffer) - 1
               THEN buffer_to_visual(buffer, down).visual_row = visual_row + 1
               ELSE down = p
            /\ IF visual_row > 0
               THEN buffer_to_visual(buffer, up).visual_row = visual_row - 1
               ELSE up = p

\* the cached entry of a row holds the queried parameters
EntryMatches(b, row, font_size, wrap_width) ==
    /\ b.line_layouts[row + 1] # None
    /\ b.line_layouts[row + 1][1].font_size = font_size
    /\ b.line_layouts[row + 1][1].wrap_width = wrap_width

\* C20: get_or_shape_line reuses the row's cached entry, without shaping and leaving
\* it unchanged, exactly when an entry exists whose font size and wrap width equal
\* the query; otherwise it shapes the row and stores an entry with the queried
\* parameters; after a call for an existing row the entry is present and carries
\* the queried parameters.  No other row's entry and no text changes.
C20_CacheReuse ==
    \A row \in 0..(Len(buffer.lines) - 1), font_size \in FontSizes, wrap_width \in WrapWidths :
        LET after == get_or_shape_line(buffer, row, font_size, wrap_width)
            shaped == shape_line_calls(buffer, row, font_size, wrap_width)
        IN  /\ EntryMatches(buffer, row, font_size, wrap_width) <=> shaped = 0
            /\ shaped = 0 => after = buffer
            /\ shaped = 1 =>
                  after.line_layouts[row + 1][1].visual_lines =
                      compute_visual_lines(buffer.lines[row + 1], font_size, wrap_width)
            /\ EntryMatches(after, row, font_size, wrap_width)
            /\ after.lines = buffer.lines
            /\ \A other \in 0..(Len(buffer.lines) - 1) :
                  other # row => after.line_layouts[other + 1] = buffer.line_layouts[other + 1]

\* a row shaped at one font size and wrap width is asked for at another wrap width
C20_Witness ==
    \E row \in 0..(Len(buffer.lines) - 1) :
        /\ Len(buffer.lines[row + 1]) >= 3
        /\ EntryMatches(buffer, row, 1, 2)
        /\ Len(buffer.line_layouts[row + 1][1].visual_lines) >= 2
        /\ get_or_shape_line(buffer, row, 1, 2) = buffer
        /\ get_or_shape_line(buffer, row, 1, 3) # buffer

\* every slot of the cache belongs to a row, and a filled slot holds the segments
\* of the row's current text at the slot's font size and wrap width
CacheCoherent(b) ==
    /\ Len(b.line_layouts) = Len(b.lines)
    /\ \A i \in 1..Len(b.lines) :
          b.line_layouts[i] # None =>
              b.line_layouts[i][1].visual_lines =
                  compute_visual_lines(b.lines[i], b.line_layouts[i][1].font_size,
                                       b.line_layouts[i][1].wrap_width)

\* what the five mutations make of b
MutationResults(b) ==
    {buffer_insert_char(b, pos, ch) : pos \in PositionsOrPastEnd(b), ch \in InsertedChars}
        \cup {buffer_insert_str(b, pos, text) : pos \in PositionsOrPastEnd(b), text \in InsertedStrings}
        \cup {buffer_delete_char(b, pos) : pos \in PositionsOrPastEnd(b)}
        \cup {buffer_backspace(b, pos) : pos \in BufferPositions(b)}
        \cup {buffer_delete_range(b, from, to) : from \in BufferPositions(b), to \in BufferPositions(b)}

\* a slot that is still filled after a mutation is the slot of a row the mutation
\* kept with its text; where no row was added or removed, a row whose text differs
\* has an empty slot
EmptiesChangedRows(b, after) ==
    /\ \A i \in 1..Len(after.lines) :
          after.line_layouts[i] # None =>
              \E j \in 1..Len(b.lines) :
                  b.lines[j] = after.lines[i] /\ b.line_layouts[j] = after.line_layouts[i]
    /\ Len(after.lines) = Len(b.lines) =>
          \A i \in 1..Len(b.lines) :
              after.lines[i] # b.lines[i] => after.line_layouts[i] = None

\* C21: the layout cache has one slot per row and every filled slot holds the segments
\* computed from the current text of its row, whatever mutations and layout queries
\* came before; a mutation leaves no filled slot on a row whose text it changed, and
\* invalidate_all_layouts empties every slot.
C21_CacheCoherence ==
    /\ CacheCoherent(buffer)
    /\ \A after \in MutationResults(buffer) :
          Len(after.line_layouts) = Len(after.lines) /\ EmptiesChangedRows(buffer, after)
    /\ \A i \in 1..Len(buffer.lines) : invalidate_all_layouts(buffer).line_layouts[i] = None

\* two rows have filled slots and a character typed into one of them empties that
\* row's slot and keeps the other's
C21_Witness ==
    /\ Len(buffer.lines) = 2
    /\ buffer.line_layouts[1] # None
    /\ buffer.line_layouts[2] # None
    /\ Len(buffer.line_layouts[2][1].visual_lines) >= 2
    /\ buffer_insert_char(buffer, Pos(1, 0), CharA).line_layouts = <<buffer.line_layouts[1], None>>

\* the text of the rows one after the other, without the newlines between them
RECURSIVE Concatenated(_)
Concatenated(rows) == IF rows = <<>> THEN <<>> ELSE Head(rows) \o Concatenated(Tail(rows))

\* rows with row r (0-based) appended to row r - 1 and removed
MergedIntoPrevious(rows, r) == Take(rows, r - 1) \o <<rows[r] \o rows[r + 1]>> \o Drop(rows, r + 1)

\* C22: with no selection, Backspace at column 0 of a row r > 0 appends row r to row
\* r - 1, removes row r and puts the cursor at (r - 1, former length of row r - 1);
\* Delete at the end of a row r that has a following row appends row r + 1 to row r,
\* removes row r + 1 and leaves the cursor where it was; both keep the concatenated
\* text of the rows and make the row count one less.
C22_RowMerging ==
    (~panicked /\ state.selection_anchor = None) =>
        LET r == state.cursor.row
            rows == state.lines
        IN  /\ (state.cursor.column = 0 /\ r > 0) =>
                  LET after == backspace(Eng) IN
                      /\ ~after.panicked
                      /\ r < Len(rows)
                      /\ after.state.lines = MergedIntoPrevious(rows, r)
                      /\ after.state.cursor = Pos(r - 1, Len(rows[r]))
                      /\ Concatenated(after.state.lines) = Concatenated(rows)
                      /\ Len(after.state.lines) = Len(rows) - 1
            /\ (r < Len(rows) /\ state.cursor.column = Len(rows[r + 1]) /\ r + 1 < Len(rows)) =>
                  LET after == delete(Eng) IN
                      /\ ~after.panicked
                      /\ after.state.lines = MergedIntoPrevious(rows, r + 1)
                      /\ after.state.cursor = state.cursor
                      /\ Concatenated(after.state.lines) = Concatenated(rows)
                      /\ Len(after.state.lines) = Len(rows) - 1

\* Backspace has merged the second of two non-empty rows into the first: the frame
\* it pushed holds the two rows with the cursor at (1, 0)
C22_Witness ==
    /\ ~panicked
    /\ undo_stack # <<>>
    /\ LET before == undo_stack[Len(undo_stack)] IN
          /\ Len(before.lines) = 2
          /\ before.lines[1] # <<>>
          /\ before.lines[2] # <<>>
          /\ before.cursor = Pos(1, 0)
          /\ before.selection_anchor = None
          /\ state.lines = <<before.lines[1] \o before.lines[2]>>
          /\ state.cursor = Pos(0, Len(before.lines[1]))

\* the listed markers, the checkbox variants before the dash they begin with
ListedMarkers ==
    <<UncheckedBox, LowerCheckedBox, UpperCheckedBox, DashMarker, StarMarker, PlusMarker>>

\* the number of ASCII digits a string begins with
RECURSIVE LeadingDigits(_)
LeadingDigits(s) == IF s # <<>> /\ IsDigit(Head(s)) THEN 1 + LeadingDigits(Tail(s)) ELSE 0

\* the marker a row begins with after its indentation, the marker that continues the
\* list (the same marker; "<N+1>. " after "<N>. ") and the content after the marker
RowMarker(row) ==
    LET text == trim_start(row)
        listed == {k \in 1..Len(ListedMarkers) : IsPrefix(ListedMarkers[k], text)}
        first == CHOOSE k \in listed : \A other \in listed : k <= other
        digits == LeadingDigits(text)
    IN  IF listed # {}
        THEN Some([marker |-> ListedMarkers[first], next |-> ListedMarkers[first],
                   content |-> Drop(text, Len(ListedMarkers[first]))])
        ELSE IF digits > 0 /\ IsPrefix(<<46, 32>>, Drop(text, digits))
        THEN Some([marker |-> Take(text, digits + 2),
                   next |-> format_usize(digits_value(Take(text, digits)) + 1) \o <<46, 32>>,
                   content |-> Drop(text, digits + 2)])
        ELSE None

\* no selection, and the cursor on a character boundary of an existing row
PlainCursor ==
    /\ ~panicked
    /\ state.selection_anchor = None
    /\ state.cursor.row < Len(state.lines)
    /\ state.cursor.column <= Len(state.lines[state.cursor.row + 1])
    /\ is_char_boundary(state.lines[state.cursor.row + 1], state.cursor.column)

\* Newline continues the list of the cursor's row with the marker `next`
ContinuesListWith(next) ==
    LET row == state.cursor.row
        col == state.cursor.column
        line == state.lines[row + 1]
        after == newline(Eng)
    IN  /\ ~after.panicked
        /\ after.state.lines =
               Take(state.lines, row) \o <<Take(line, col), next \o Drop(line, col)>>
                   \o Drop(state.lines, row + 1)
        /\ after.state.cursor = Pos(row + 1, Len(next))

\* C23: Newline on a row that begins with a list marker and has content after it
\* splits the row at the cursor, starts the new row with the same marker as the
\* current row (an ordered marker N becomes N + 1) followed by the text that was
\* after the cursor, and puts the cursor right after the inserted marker.
C23_NewlineRepeatsMarker ==
    PlainCursor =>
        LET hit == RowMarker(state.lines[state.cursor.row + 1]) IN
            (hit # None /\ hit[1].content # <<>>) => ContinuesListWith(hit[1].next)

\* C24: Newline on a row that consists only of a list marker (an empty list item)
\* does not repeat the marker: the current row loses the marker and becomes empty,
\* an empty row is inserted below it and the cursor goes to (row + 1, 0).
C24_NewlineEndsList ==
    PlainCursor =>
        LET row == state.cursor.row
            hit == RowMarker(state.lines[row + 1])
            after == newline(Eng)
        IN  (hit # None /\ state.lines[row + 1] = hit[1].marker) =>
                /\ ~after.panicked
                /\ after.state.lines =
                       Take(state.lines, row) \o << <<>>, <<>> >> \o Drop(state.lines, row + 1)
                /\ after.state.cursor = Pos(row + 1, 0)

\* Newline has ended a list: the frame it pushed has the cursor on a row that was
\* only a marker, below other rows, and that row and the one below it are now empty
C24_Witness ==
    /\ ~panicked
    /\ undo_stack # <<>>
    /\ LET before == undo_stack[Len(undo_stack)]
           row == before.cursor.row
       IN  /\ before.selection_anchor = None
           /\ row < Len(before.lines)
           /\ before.lines[row + 1] = DashMarker
           /\ state.lines = Take(before.lines, row) \o << <<>>, <<>> >> \o Drop(before.lines, row + 1)
           /\ state.cursor = Pos(row + 1, 0)
           /\ last_edit_time = None

\* the cursor, and the anchor if one is set, are within their rows
EndpointsInBounds ==
    /\ ~panicked
    /\ PositionInBounds(state, state.cursor)
    /\ state.selection_anchor # None => PositionInBounds(state, state.selection_anchor[1])

\* rows with four spaces put in front of every row from lo to hi (0-based)
IndentedRows(rows, lo, hi) ==
    [i \in 1..Len(rows) |-> IF lo <= i - 1 /\ i - 1 <= hi THEN FourSpaces \o rows[i] ELSE rows[i]]

\* C25: Tab without a selection inserts exactly four spaces at the cursor and moves
\* the cursor four columns on; Tab with a selection puts four spaces in front of every
\* row from the first to the last row of the selection, leaves the other rows as they
\* are, and adds 4 to the anchor's column and to the cursor's column, both staying
\* within their rows.
C25_TabIndents ==
    (EndpointsInBounds /\ PositionOnBoundary(state, state.cursor)) =>
        LET after == tab(Eng)
            cursor == state.cursor
            line == state.lines[cursor.row + 1]
        IN  /\ ~after.panicked
            /\ state.selection_anchor = None =>
                  /\ after.state.lines =
                         [state.lines EXCEPT ![cursor.row + 1] =
                             Take(line, cursor.column) \o FourSpaces \o Drop(line, cursor.column)]
                  /\ after.state.cursor = Pos(cursor.row, cursor.column + 4)
                  /\ after.state.selection_anchor = None
            /\ state.selection_anchor # None =>
                  LET anchor == state.selection_anchor[1] IN
                  /\ after.state.lines =
                         IndentedRows(state.lines, Min(anchor.row, cursor.row), Max(anchor.row, cursor.row))
                  /\ after.state.selection_anchor = Some(Pos(anchor.row, anchor.column + 4))
                  /\ after.state.cursor = Pos(cursor.row, cursor.column + 4)
                  /\ PositionInBounds(after.state, after.state.cursor)
                  /\ PositionInBounds(after.state, after.state.selection_anchor[1])

\* the number of spaces a row begins with, counted up to four
LeadingSpacesUpTo4(row) ==
    IF row = <<>> \/ row[1] # 32 THEN 0
    ELSE CHOOSE n \in 1..4 :
             /\ n <= Len(row)
             /\ \A i \in 1..n : row[i] = 32
             /\ (n = 4 \/ n = Len(row) \/ row[n + 1] # 32)

\* rows with their leading spaces, up to four, removed from every row from lo to hi
OutdentedRows(rows, lo, hi) ==
    [i \in 1..Len(rows) |->
        IF lo <= i - 1 /\ i - 1 <= hi THEN Drop(rows[i], LeadingSpacesUpTo4(rows[i])) ELSE rows[i]]

\* a position moved left by the number of spaces removed from its row, not below 0
ShiftedLeft(rows, p) == Pos(p.row, Max(p.column - LeadingSpacesUpTo4(rows[p.row + 1]), 0))

\* C26: Outdent removes min(4, leading spaces) leading spaces from the cursor's row,
\* or from every row the selection touches, and moves the cursor's column and each
\* selection endpoint's column left by the number of spaces removed from that
\* endpoint's row, not below 0; a row without leading spaces and the columns on it
\* stay as they are.
C26_OutdentShifts ==
    EndpointsInBounds =>
        LET after == outdent(Eng)
            cursor == state.cursor
        IN  /\ ~after.panicked
            /\ state.selection_anchor = None =>
                  /\ after.state.lines = OutdentedRows(state.lines, cursor.row, cursor.row)
                  /\ after.state.cursor = ShiftedLeft(state.lines, cursor)
                  /\ after.state.selection_anchor = None
            /\ state.selection_anchor # None =>
                  LET anchor == state.selection_anchor[1] IN
                  /\ after.state.lines =
                         OutdentedRows(state.lines, Min(anchor.row, cursor.row), Max(anchor.row, cursor.row))
                  /\ after.state.cursor = ShiftedLeft(state.lines, cursor)
                  /\ after.state.selection_anchor = Some(ShiftedLeft(state.lines, anchor))

\* the rows as a bag
RowBag(rows) == [row \in {rows[i] : i \in 1..Len(rows)} |-> Cardinality({i \in 1..Len(rows) : rows[i] = row})]

\* C27: MoveLineUp with the cursor on a row r > 0 exchanges rows r and r - 1 and puts
\* the cursor on row r - 1; MoveLineDown with the cursor on a row r that is not the
\* last exchanges rows r and r + 1 and puts the cursor on row r + 1; both keep the
\* cursor's column and the multiset of rows.  On the first row MoveLineUp, and on the
\* last row MoveLineDown, changes nothing: neither the document nor the undo and redo
\* stacks.
C27_MoveLineSwaps ==
    (~panicked /\ state.cursor.row < Len(state.lines)) =>
        LET r == state.cursor.row
            rows == state.lines
            up == move_line_up(Eng)
            down == move_line_down(Eng)
        IN  /\ r > 0 =>
                  /\ ~up.panicked
                  /\ up.state.lines = [rows EXCEPT ![r] = rows[r + 1], ![r + 1] = rows[r]]
                  /\ up.state.cursor = Pos(r - 1, state.cursor.column)
                  /\ RowBag(up.state.lines) = RowBag(rows)
            /\ r = 0 => up = Eng
            /\ r + 1 < Len(rows) =>
                  /\ ~down.panicked
                  /\ down.state.lines = [rows EXCEPT ![r + 1] = rows[r + 2], ![r + 2] = rows[r + 1]]
                  /\ down.state.cursor = Pos(r + 1, state.cursor.column)
                  /\ RowBag(down.state.lines) = RowBag(rows)
            /\ r + 1 = Len(rows) => down = Eng

\* MoveLineUp has exchanged two different rows: the frame it pushed has the cursor on
\* the second row, and the rows are now the other way round with the cursor on the first
C27_Witness ==
    /\ ~panicked
    /\ undo_stack # <<>>
    /\ LET before == undo_stack[Len(undo_stack)] IN
          /\ Len(before.lines) >= 2
          /\ before.cursor.row = 1
          /\ before.lines[1] # before.lines[2]
          /\ state.lines = [before.lines EXCEPT ![1] = before.lines[2], ![2] = before.lines[1]]
          /\ state.cursor = Pos(0, before.cursor.column)
          /\ last_edit_time = None
          /\ move_line_up(Eng) = Eng

\* C28: the font size is between 8 and 72 in every reachable state; IncreaseFontSize
\* adds 2 but stops at 72, DecreaseFontSize takes 2 off but stops at 8, ResetFontSize
\* sets the default of a new document; an IncreaseFontSize that was not capped,
\* followed by DecreaseFontSize, gives the size back.
C28_FontSizeRange ==
    LET size == state.font_size
        increased == increase_font_size(Eng).state.font_size
    IN  /\ 8 <= size /\ size <= 72
        /\ increased = (IF size + 2 <= 72 THEN size + 2 ELSE 72)
        /\ decrease_font_size(Eng).state.font_size = (IF size - 2 >= 8 THEN size - 2 ELSE 8)
        /\ reset_font_size(Eng).state.font_size = NewState.font_size
        /\ size + 2 <= 72 => decrease_font_size(increase_font_size(Eng)) = Eng

\* the size is at the cap with an undo frame taken at another size, and a further
\* IncreaseFontSize leaves it there
C28_Witness ==
    /\ state.font_size = 72
    /\ undo_stack # <<>>
    /\ undo_stack[1].font_size = 8
    /\ increase_font_size(Eng) = Eng

\* the engines the navigation and selection actions lead to from e
NavigationResults(e) ==
    {move_left(e), move_right(e), move_up(e), move_down(e),
     move_to_line_start(e), move_to_line_end(e), move_word_left(e), move_word_right(e),
     select_left(e), select_right(e), select_up(e), select_down(e),
     select_word_left(e), select_word_right(e), select_all(e)}
        \cup {set_cursor_position(e, p.row, p.column) : p \in Positions}
        \cup {start_selection(e, p.row, p.column) : p \in Positions}
        \cup {extend_selection(e, p.row, p.column) : p \in Positions}

\* C29: the navigation and selection actions leave the rows, the undo stack, the redo
\* stack and the chunk timer as they were; so a typing edit made less than 500 ms
\* after the previous edit pushes no undo frame, whether or not such an action came
\* in between.
C29_NavigationKeepsHistory ==
    ~panicked =>
        \A r \in NavigationResults(Eng) :
            ~r.panicked =>
                /\ r.state.lines = state.lines
                /\ r.undo_stack = undo_stack
                /\ r.redo_stack = redo_stack
                /\ r.last_edit_time = last_edit_time
                /\ (last_edit_time # None /\ last_edit_time[1] < 500) =>
                      \A c \in TypedChars :
                          LET typed == type_character(r, c) IN
                              ~typed.panicked =>
                                  /\ typed.undo_stack = undo_stack
                                  /\ typed.redo_stack = redo_stack

\* one typing edit, then a move away from the end of what was typed, less than 500 ms
\* ago: the next typing edit pushes no frame
C29_Witness ==
    /\ ~panicked
    /\ run # None
    /\ run[1].edits = 1
    /\ last_edit_time # None
    /\ last_edit_time[1] < 500
    /\ Len(undo_stack) = 1
    /\ state.lines = <<CharA>>
    /\ state.cursor = Pos(0, 0)
    /\ type_character(Eng, CharA).undo_stack = undo_stack

\* the engines the actions that can change the rows lead to from e
MutatingResults(e) ==
    TextEdits(e) \cup {move_line_up(e), move_line_down(e), tab(e), outdent(e)}

\* the next edit after e, an engine just left by Undo or Redo, pushes one undo frame
\* and empties the redo stack
NextEditOpensChunk(e) ==
    \A after \in MutatingResults(e) :
        (~after.panicked /\ after.state.lines # e.state.lines) =>
            /\ Len(after.undo_stack) = Len(e.undo_stack) + 1
            /\ after.redo_stack = <<>>

\* C30: Undo with a non-empty undo stack pops the most recent frame, pushes the
\* current state onto the redo stack, makes the popped frame the current state and
\* resets the chunk timer, so that the next edit pushes a new undo frame and clears
\* the redo stack however soon after the previous edit it comes; Redo does the same
\* with the two stacks exchanged.
C30_UndoResetsChunk ==
    ~panicked =>
        /\ undo_stack # <<>> =>
              LET undone == undo(Eng) IN
                  /\ undone.undo_stack = SubSeq(undo_stack, 1, Len(undo_stack) - 1)
                  /\ undone.redo_stack = redo_stack \o <<state>>
                  /\ undone.state = undo_stack[Len(undo_stack)]
                  /\ undone.last_edit_time = None
                  /\ NextEditOpensChunk(undone)
        /\ redo_stack # <<>> =>
              LET redone == redo(Eng) IN
                  /\ redone.redo_stack = SubSeq(redo_stack, 1, Len(redo_stack) - 1)
                  /\ redone.undo_stack = undo_stack \o <<state>>
                  /\ redone.state = redo_stack[Len(redo_stack)]
                  /\ redone.last_edit_time = None
                  /\ NextEditOpensChunk(redone)

\* right after an Undo that left a frame on the undo stack and came less than 500 ms
\* after the edit it undid: typing now pushes a frame and empties the redo stack
C30_Witness ==
    /\ ~panicked
    /\ redo_stack # <<>>
    /\ undo_stack # <<>>
    /\ last_edit_time = None
    /\ redo_stack[Len(redo_stack)].lines # state.lines
    /\ LET typed == type_character(Eng, CharA) IN
          /\ typed.undo_stack = undo_stack \o <<state>>
          /\ typed.redo_stack = <<>>

----------------------------------------------------------------------------
(* Chunk boundaries, word movement and the remaining edits *)

\* the engines the edits that always end the chunk lead to from e
BoundaryResults(e) ==
    {newline(e), delete_line(e), tab(e), outdent(e),
     delete_to_beginning_of_line(e), delete_to_end_of_line(e)}

\* the engines the edits that end the chunk when they change the rows lead to from e
GuardedBoundaryResults(e) ==
    {delete_word_left(e), delete_word_right(e), move_line_up(e), move_line_down(e)}

\* the frames an edit pushes in the current state: one if the engine is clean or
\* more than 500 ms have passed since the last edit, none otherwise
FramesDue == IF last_edit_time = None \/ last_edit_time[1] > 500 THEN 1 ELSE 0

\* e, reached from the current state by a boundary edit, is clean and has pushed a
\* frame exactly if one was due
EndsChunk(e) ==
    /\ e.last_edit_time = None
    /\ Len(e.undo_stack) = Len(undo_stack) + FramesDue
    /\ FramesDue = 0 => e.undo_stack = undo_stack /\ e.redo_stack = redo_stack

CharAt(line, at) == SubSeq(line, at + 1, at + len_utf8(line[at + 1]))
CharBefore(line, at) == SubSeq(line, last_char_start(Take(line, at)) + 1, at)

IsWordChar(c) == is_alphanumeric(c) \/ c = <<95>>

\* the byte offset reached from `at` by passing the characters of one class
RECURSIVE PassRight(_, _, _)
PassRight(line, at, word) ==
    IF at < Len(line)
          /\ (IF word THEN IsWordChar(CharAt(line, at)) ELSE is_whitespace(CharAt(line, at)))
    THEN PassRight(line, at + Len(CharAt(line, at)), word)
    ELSE at

RECURSIVE PassLeft(_, _, _)
PassLeft(line, at, word) ==
    IF at > 0
          /\ (IF word THEN IsWordChar(CharBefore(line, at)) ELSE is_whitespace(CharBefore(line, at)))
    THEN PassLeft(line, at - Len(CharBefore(line, at)), word)
    ELSE at

\* where the word scans end: the word run and then the white space to the right;
\* the white space and then the word run to the left
WordRightOf(line, at) == PassRight(line, PassRight(line, at, TRUE), FALSE)
WordLeftOf(line, at) == PassLeft(line, PassLeft(line, at, FALSE), TRUE)

\* C32: MoveWordRight with the cursor before the end of its row puts the cursor at
\* the byte offset reached by passing the maximal run of alphanumeric-or-underscore
\* characters that starts at the cursor and then the maximal run of white space after
\* it, whatever the row holds, multi-byte characters included; MoveWordLeft passes
\* the white space left of the cursor and then the run of word characters; at the
\* end of a row MoveWordRight goes to column 0 of the next row, and at the start of a
\* row MoveWordLeft goes to the end of the previous row.
C32_WordNavigation ==
    (~panicked /\ PositionInBounds(state, state.cursor) /\ PositionOnBoundary(state, state.cursor)) =>
        LET row == state.cursor.row
            col == state.cursor.column
            line == state.lines[row + 1]
            right == move_word_right(Eng)
            left == move_word_left(Eng)
        IN  /\ ~right.panicked /\ ~left.panicked
            /\ right.state.lines = state.lines /\ left.state.lines = state.lines
            /\ col < Len(line) => right.state.cursor = Pos(row, WordRightOf(line, col))
            /\ (col = Len(line) /\ row + 1 < Len(state.lines)) => right.state.cursor = Pos(row + 1, 0)
            /\ col > 0 => left.state.cursor = Pos(row, WordLeftOf(line, col))
            /\ (col = 0 /\ row > 0) => left.state.cursor = Pos(row - 1, Len(state.lines[row]))

\* the characters of a row that start at a byte offset from lo to hi
CharsStartingIn(line, lo, hi) == {k \in 1..Len(char_indices(line)) :
                                     lo <= char_indices(line)[k].idx /\ char_indices(line)[k].idx <= hi}

\* a hard segment of a row: it is not empty, it is closed where a character begins,
\* with that character the advance since the segment's start exceeds the wrap width,
\* and neither the segment nor that character holds white space
HardSegmentIsForced(line, seg, font_size, wrap_width) ==
    LET from == seg.byte_range.start
        to == seg.byte_range.end
        cs == char_indices(line)
    IN  /\ from < to /\ to < Len(line)
        /\ is_char_boundary(line, to)
        /\ font_size * Cardinality(CharsStartingIn(line, from, to)) > wrap_width
        /\ \A k \in CharsStartingIn(line, from, to) : ~is_whitespace(cs[k].ch)

\* C33: no segment is hyphenated; a hard segment is produced only where the advance
\* exceeds the wrap width with no white-space boundary after the segment's start, and
\* is closed at the current character; the last segment of a row is soft; a row that
\* fits within the wrap width yields exactly one soft segment covering the row, and
\* an empty row exactly one segment of length zero.
C33_WrapTypes ==
    \A row \in 1..Len(buffer.lines), font_size \in FontSizes, wrap_width \in WrapWidths :
        LET line == buffer.lines[row]
            segs == compute_visual_lines(line, font_size, wrap_width)
        IN  /\ segs # <<>>
            /\ \A k \in 1..Len(segs) :
                  /\ segs[k].wrap_type \in {"SoftWrap", "HardWrap"}
                  /\ segs[k].wrap_type = "HardWrap" =>
                        HardSegmentIsForced(line, segs[k], font_size, wrap_width)
            /\ segs[Len(segs)].wrap_type = "SoftWrap"
            /\ font_size * Len(char_indices(line)) <= wrap_width =>
                  segs = <<VisualLine(0, Len(line), "SoftWrap")>>
            /\ line = <<>> => segs = <<VisualLine(0, 0, "SoftWrap")>>

\* a row has been shaped into a hard segment followed by a soft one, beside an
\* empty row and its single segment
C33_Witness ==
    \E row \in 1..Len(buffer.lines), other \in 1..Len(buffer.lines) :
        /\ buffer.line_layouts[row] # None
        /\ Len(buffer.line_layouts[row][1].visual_lines) >= 2
        /\ buffer.line_layouts[row][1].visual_lines[1].wrap_type = "HardWrap"
        /\ buffer.lines[other] = <<>>
        /\ buffer.line_layouts[other] # None

\* C34: DeleteToBeginningOfLine removes exactly the text of the cursor's row from
\* column 0 up to the cursor and sets the cursor's column to 0; DeleteToEndOfLine
\* removes exactly the text from the cursor to the end of the row and leaves the
\* cursor where it was; neither changes another row or the number of rows.
C34_DeleteToLineEdges ==
    (~panicked /\ PositionInBounds(state, state.cursor) /\ PositionOnBoundary(state, state.cursor)) =>
        LET row == state.cursor.row
            col == state.cursor.column
            line == state.lines[row + 1]
            to_start == delete_to_beginning_of_line(Eng)
            to_end == delete_to_end_of_line(Eng)
        IN  /\ ~to_start.panicked
            /\ to_start.state.lines = [state.lines EXCEPT ![row + 1] = SubSeq(line, col + 1, Len(line))]
            /\ to_start.state.cursor = Pos(row, 0)
            /\ ~to_end.panicked
            /\ to_end.state.lines = [state.lines EXCEPT ![row + 1] = SubSeq(line, 1, col)]
            /\ to_end.state.cursor = state.cursor

\* DeleteToBeginningOfLine has removed the first character of a two-row document's
\* second row: the frame it pushed has the cursor inside that row
C34_Witness ==
    /\ ~panicked
    /\ undo_stack # <<>>
    /\ last_edit_time = None
    /\ LET before == undo_stack[Len(undo_stack)] IN
          /\ Len(before.lines) = 2
          /\ before.cursor = Pos(1, 1)
          /\ Len(before.lines[2]) = 2
          /\ state.lines = <<before.lines[1], <<before.lines[2][2]>> >>
          /\ state.cursor = Pos(1, 0)

----------------------------------------------------------------------------
(* The front end's loop, round trips, the stacks and orientation *)

\* a whole poll of the file has run after the last event
Settled == since = "polled"

\* C35: in the front end's loop, for every interleaving of the user's actions
\* with writes to the file by another process, once no further event occurs and
\* one more poll has run, the rows in memory are the content of the file: no
\* external write stays on disk unobserved while memory holds something else.
C35_LastObservedSourceWins == Settled => to_string(state) = file.content

\* the rows a load of the file written by a save of e leaves in the engine
RoundTripRows(e) == load_from_file(e, save_to_file(e, TRUE).written[1]).state.lines

\* C36: for every reachable document, saving it to a file and then loading
\* that file yields the same rows, in number and content, also when the last
\* row is empty.
C36_SaveLoadRoundTrip == ~panicked => RoundTripRows(Eng) = state.lines

\* row-changing results of e other than those of Undo and Redo
RowChangingResults(e) == {r \in MutatingResults(e) : ~r.panicked /\ r.state.lines # e.state.lines}

\* C37: in every reachable state with a last-edit time recorded the redo stack
\* is empty and the undo stack is not; so every action other than Undo and
\* Redo that changes rows leaves the redo stack empty, and a coalesced edit
\* can be undone.
C37_ChunkingImpliesUndoable ==
    ~panicked =>
        /\ last_edit_time # None => (redo_stack = <<>> /\ undo_stack # <<>>)
        /\ \A r \in RowChangingResults(Eng) : r.redo_stack = <<>>
        /\ \A r \in CharEdits(Eng) :
              (~r.panicked /\ r.state.lines # state.lines /\ Len(r.undo_stack) = Len(undo_stack))
                  => (r.undo_stack # <<>> /\ undo(r).state = Top(r.undo_stack))

C37_Witness ==
    /\ ~panicked
    /\ last_edit_time # None
    /\ run # None
    /\ run[1].edits >= 2
    /\ run[1].frames = 1
    /\ state.lines # run[1].base.lines
    /\ Len(undo_stack) >= 2

RECURSIVE UndoTimes(_, _)
\* the engine after n calls of undo
UndoTimes(e, n) == IF n = 0 THEN e ELSE UndoTimes(undo(e), n - 1)

RECURSIVE RedoTimes(_, _)
\* the engine after n calls of redo
RedoTimes(e, n) == IF n = 0 THEN e ELSE RedoTimes(redo(e), n - 1)

\* the frames on both stacks of e
TotalFrames(e) == Len(e.undo_stack) + Len(e.redo_stack)

\* C38: Undo and Redo each keep the number of frames on the two stacks
\* together; for every n up to the depth of the undo stack, n Undos and then
\* n Redos restore the current state and both stacks; Undo with an empty undo
\* stack and Redo with an empty redo stack change nothing.
C38_UndoRedoConserveHistory ==
    ~panicked =>
        /\ TotalFrames(undo(Eng)) = TotalFrames(Eng)
        /\ TotalFrames(redo(Eng)) = TotalFrames(Eng)
        /\ \A n \in 0..Len(undo_stack) :
              LET back == RedoTimes(UndoTimes(Eng, n), n) IN
                  /\ back.state = state
                  /\ back.undo_stack = undo_stack
                  /\ back.redo_stack = redo_stack
        /\ undo_stack = <<>> => undo(Eng) = Eng
        /\ redo_stack = <<>> => redo(Eng) = Eng

C38_Witness ==
    /\ ~panicked
    /\ Len(undo_stack) >= 2
    /\ redo_stack # <<>>
    /\ UndoTimes(Eng, 2).state # state
    /\ Len(UndoTimes(Eng, 2).redo_stack) = Len(redo_stack) + 2

\* position p comes before position q in row-then-column order
PosBefore(p, q) == p.row < q.row \/ (p.row = q.row /\ p.column < q.column)

\* the end of the last row of st
DocumentEnd(st) == Pos(Len(st.lines) - 1, Len(st.lines[Len(st.lines)]))

\* C39: each MoveWordRight with the cursor not at the end of the document moves
\* the cursor strictly forward in row-then-column order, and each MoveWordLeft
\* with the cursor not at (0, 0) moves it strictly back, also next to
\* punctuation, so that repeating either reaches the end of the document.
C39_WordMovementProgress ==
    (~panicked /\ PositionInBounds(state, state.cursor) /\ PositionOnBoundary(state, state.cursor)) =>
        /\ state.cursor # DocumentEnd(state) =>
              /\ ~move_word_right(Eng).panicked
              /\ PosBefore(state.cursor, move_word_right(Eng).state.cursor)
        /\ state.cursor # Pos(0, 0) =>
              /\ ~move_word_left(Eng).panicked
              /\ PosBefore(move_word_left(Eng).state.cursor, state.cursor)

\* after has the cursor on the side of the anchor on which st has it, both on their rows
SameOrientation(st, after) ==
    LET cursor == st.cursor
        anchor == st.selection_anchor[1]
    IN  /\ after.selection_anchor # None
        /\ after.cursor.row = cursor.row
        /\ after.selection_anchor[1].row = anchor.row
        /\ PosBefore(cursor, anchor) => ~PosBefore(after.selection_anchor[1], after.cursor)
        /\ PosBefore(anchor, cursor) => ~PosBefore(after.cursor, after.selection_anchor[1])

\* C40: Tab and Outdent with an active selection keep the selection's
\* orientation: a cursor at the start of the selected range is at its start
\* afterwards, a cursor at its end is at its end, each endpoint on its row.
C40_IndentKeepsOrientation ==
    (EndpointsInBounds /\ state.selection_anchor # None /\ state.selection_anchor[1] # state.cursor) =>
        /\ ~tab(Eng).panicked /\ SameOrientation(state, tab(Eng).state)
        /\ ~outdent(Eng).panicked /\ SameOrientation(state, outdent(Eng).state)

====
